---- MODULE Spec2Model ----
(***************************************************************************)
(* Bill-denomination allocation engine of sbux-tips (lib/billCalc):        *)
(* generateCombos, searchAllocation, allocateBillBreakdowns and            *)
(* calculateBillBreakdown; and the OCR services around it: the RateLimiter *)
(* and the retry loop of analyzeImage (server/api/gemini.ts) and the auto  *)
(* mode of analyzeImageWithService (server/lib/ocrService.ts).             *)
(*                                                                         *)
(* A BillCountsArray is the 4-tuple <<twenties, tens, fives, ones>>.       *)
(* The specifications share the variables:                                 *)
(*   Spec          one call of allocateBillBreakdowns, the backtracking    *)
(*                 search taken one loop iteration / call / return a step; *)
(*   SpecCombos    one call of generateCombos(amount, cap);                *)
(*   SpecBreakdown one call of calculateBillBreakdown(amount);             *)
(*   SpecRateLimiter  calls of RateLimiter.canMakeRequest as time passes;  *)
(*   SpecAnalyzeImage one call of analyzeImage, one loop iteration a step; *)
(*   SpecOcrService   one call of analyzeImageWithService.                 *)
(***************************************************************************)
EXTENDS Integers, Sequences, FiniteSets

VARIABLES
    roundedAmounts,  \* allocateBillBreakdowns: argument roundedAmounts
    billInventory,   \* allocateBillBreakdowns: argument billInventory
    pc,              \* position of the call: "start", "search", "finish", "done", "off"
    partners,        \* the partners array (index, rounded, combos)
    allocation,      \* the allocation table searchAllocation writes
    stack,           \* the searchAllocation call stack, innermost frame last
    ret,             \* value returned by the searchAllocation call that just ended
    result,          \* value returned by allocateBillBreakdowns
    searchCalls,     \* number of searchAllocation invocations so far
    gAmount,         \* generateCombos: argument amount
    gCap,            \* generateCombos: argument inventory
    gCombos,         \* generateCombos: returned list
    gPc,             \* "call", "done", "off"
    bAmount,         \* calculateBillBreakdown: argument amount, in cents
    bBreakdown,      \* calculateBillBreakdown: returned list
    bPc,             \* "call", "done", "off"
    now,             \* Date.now(), in ms
    requests,        \* RateLimiter.requests: the timestamps the limiter holds
    admitted,        \* history: the times at which canMakeRequest returned true
    answers,         \* history: what each canMakeRequest call returned, in order
    ticks,           \* number of clock advances between limiter calls so far
    lPc,             \* "run", "off"
    provider,        \* analyzeImage: "gemini", "azure-openai", "azure-vision"
    configured,      \* analyzeImage: the provider's key / endpoint is present
    attempt,         \* analyzeImage: the loop variable attempt
    delays,          \* history: the waits slept before each retry, in order
    outbound,        \* history: the times of the HTTP requests sent to the provider
    replies,         \* history: what ended each attempt, in order
    aResult,         \* value returned by analyzeImage
    aPc,             \* "start", "attempt", "done", "off"
    latency,         \* time the provider takes to answer a request of this call, ms
    preferredEngine, \* analyzeImageWithService: argument preferredEngine
    envEngine,       \* process.env.OCR_ENGINE
    oStack,          \* the analyzeImageWithService calls in progress, innermost last
    oRet,            \* value returned by the nested service call that just ended
    azureResult,     \* history: azureResult of the outermost call
    tesseractResult, \* history: tesseractResult of the outermost call
    oResult,         \* value returned by the outermost analyzeImageWithService
    oPc,             \* "call", "run", "done", "off"
    partnerPayout,   \* the partner prop: rounded and billBreakdown
    isEditing,       \* PartnerCard: state isEditing
    billInputs,      \* PartnerCard: state billInputs, one string per denomination
    inputError,      \* PartnerCard: state error
    isOpen,          \* BillBreakdownModal: prop isOpen
    billCounts,      \* BillBreakdownModal: state billCounts, one number per denomination
    errorMessage,    \* BillBreakdownModal: state errorMessage
    lastHandler,     \* history: the handler that ran last and what it passed on
    workerInstance,  \* tesseract: module variable workerInstance (0 is null)
    createWorkerCalls, \* history: number of createWorker invocations so far
    callers,         \* the getOCRWorker calls: position, local worker, value returned
    terminations,    \* history: number of terminateOCRWorker calls so far
    tPc              \* terminateOCRWorker: "idle", "terminating", "off"

vars == <<roundedAmounts, billInventory, pc, partners, allocation, stack, ret,
          result, searchCalls, gAmount, gCap, gCombos, gPc, bAmount, bBreakdown, bPc,
          now, requests, admitted, answers, ticks, lPc,
          provider, configured, attempt, delays, outbound, replies, aResult, aPc,
          latency, preferredEngine, envEngine, oStack, oRet, azureResult, tesseractResult,
          oResult, oPc, partnerPayout, isEditing, billInputs, inputError, isOpen, billCounts,
          errorMessage, lastHandler, workerInstance, createWorkerCalls, callers,
          terminations, tPc>>

allocVars == <<roundedAmounts, billInventory, pc, partners, allocation, stack, ret,
               result, searchCalls>>
comboVars == <<gAmount, gCap, gCombos, gPc>>
breakdownVars == <<bAmount, bBreakdown, bPc>>
limiterVars == <<now, requests, admitted, answers, ticks, lPc>>
analyzeVars == <<provider, configured, attempt, delays, outbound, replies, aResult, aPc,
                 latency>>
autoVars == <<preferredEngine, envEngine, oStack, oRet, azureResult, tesseractResult,
              oResult, oPc>>
editVars == <<partnerPayout, isEditing, billInputs, inputError, isOpen, billCounts, errorMessage,
              lastHandler>>
workerVars == <<workerInstance, createWorkerCalls, callers, terminations, tPc>>
clientVars == <<editVars, workerVars>>
serviceVars == <<limiterVars, analyzeVars, autoVars, clientVars>>

----------------------------------------------------------------------------
(* Bounds of the model.                                                    *)

MaxPartners == 2          \* longest roundedAmounts list
MaxTwenties == 1          \* largest count of $20 bills in an inventory
MaxTens == 2              \* largest count of $10 bills
MaxFives == 2             \* largest count of $5 bills
MaxOnes == 5              \* largest count of $1 bills
MaxComboAmount == 36      \* largest amount handed to generateCombos alone
MinComboAmount == 3       \* generateCombos alone is also given -MinComboAmount..-1
MaxBreakdownDollars == 200\* largest amount handed to calculateBillBreakdown

\* Targets of the allocation calls: a negative one, zero, amounts that need
\* $1 bills, and amounts built from the larger bills.
AmountChoices == {-1, 0, 3, 5, 15, 20, 25}

----------------------------------------------------------------------------
(* Values                                                                  *)

\* null, "no value yet", and the two kinds of value a call returns.
Null == [kind |-> "null"]
None == [kind |-> "none"]
Counts(counts) == [kind |-> "counts", counts |-> counts]
Solution(breakdowns, remaining) ==
    [kind |-> "solution", breakdowns |-> breakdowns, remaining |-> remaining]

\* Variant: the denominations listed from the smallest up.
DENOMINATION_DETAILS_ascending ==
    << [value |-> 1,  key |-> "ones"],
       [value |-> 5,  key |-> "fives"],
       [value |-> 10, key |-> "tens"],
       [value |-> 20, key |-> "twenties"] >>

DENOMINATION_DETAILS ==
    << [value |-> 20, key |-> "twenties"],
       [value |-> 10, key |-> "tens"],
       [value |-> 5,  key |-> "fives"],
       [value |-> 1,  key |-> "ones"] >>

DENOMINATIONS == [i \in 1..Len(DENOMINATION_DETAILS) |-> DENOMINATION_DETAILS[i].value]

emptyCounts == <<0, 0, 0, 0>>

\* inventory.key ?? 0: a field the inventory does not hold counts as 0.
countOrZero(inventory, key) == IF key \in DOMAIN inventory THEN inventory[key] ELSE 0

inventoryToCounts(inventory) ==
    << countOrZero(inventory, "twenties"), countOrZero(inventory, "tens"),
       countOrZero(inventory, "fives"), countOrZero(inventory, "ones") >>

countsToInventory(counts) ==
    [twenties |-> counts[1], tens |-> counts[2], fives |-> counts[3], ones |-> counts[4]]

\* Variant: the .filter left out.
countsToBreakdown_noFilter(counts) ==
    [i \in 1..Len(DENOMINATION_DETAILS) |->
        [denomination |-> DENOMINATION_DETAILS[i].value, quantity |-> counts[i]]]

\* .map to {denomination, quantity} in DENOMINATION_DETAILS order, then
\* .filter(quantity > 0)
countsToBreakdown(counts) ==
    SelectSeq([i \in 1..Len(DENOMINATION_DETAILS) |->
                  [denomination |-> DENOMINATION_DETAILS[i].value, quantity |-> counts[i]]],
              LAMBDA entry : entry.quantity > 0)

\* Variant: .some in place of .every.
countsFitInventory_some(counts, inventory) ==
    \E index \in 1..Len(counts) : counts[index] <= inventory[index]

\* Variant: < in place of <=.
countsFitInventory_strict(counts, inventory) ==
    \A index \in 1..Len(counts) : counts[index] < inventory[index]

countsFitInventory(counts, inventory) ==
    \A index \in 1..Len(counts) : counts[index] <= inventory[index]

\* Variant: counts[0] subtracted from every component.
subtractCounts_firstIndex(inventory, counts) ==
    [index \in 1..Len(inventory) |-> inventory[index] - counts[1]]

subtractCounts(inventory, counts) ==
    [index \in 1..Len(inventory) |-> inventory[index] - counts[index]]

Min(a, b) == IF a <= b THEN a ELSE b

\* Variant: the loop stops at 1 (x > 0).
DownFrom_stopAtOne(max) == IF max < 1 THEN <<>> ELSE [k \in 1..max |-> max + 1 - k]

\* Variant: the body runs once before the condition is tested.
DownFrom_atLeastOnce(max) == IF max < 0 THEN <<0>> ELSE [k \in 1..(max + 1) |-> max + 1 - k]

\* The values a loop "for (x = max; x >= 0; x--)" takes, in order.
DownFrom(max) == IF max < 0 THEN <<>> ELSE [k \in 1..(max + 1) |-> max + 1 - k]

RECURSIVE Flatten(_)
Flatten(seqs) == IF seqs = <<>> THEN <<>> ELSE Head(seqs) \o Flatten(Tail(seqs))

----------------------------------------------------------------------------
(* generateCombos                                                          *)

\* Variant: < in place of <=.
onesSuffice_strict(afterFives, inventory) == afterFives < inventory[4]

\* Variant: the rest is compared with the count of $5 bills.
onesSuffice_wrongIndex(afterFives, inventory) == afterFives <= inventory[3]

\* if (afterFives <= inventory[3]): the rest is paid in $1 bills.
onesSuffice(afterFives, inventory) == afterFives <= inventory[4]

\* The three nested loops: every push, in the order the loops make them.
enumerateCombos(amount, inventory) ==
    LET fivesLoop(twenties, tens, afterTens) ==
            LET maxFives == Min(afterTens \div 5, inventory[3])
                fivesSeq == DownFrom(maxFives)
            IN  SelectSeq([k \in 1..Len(fivesSeq) |->
                              <<twenties, tens, fivesSeq[k], afterTens - fivesSeq[k] * 5>>],
                          LAMBDA combo : onesSuffice(combo[4], inventory))
        tensLoop(twenties, afterTwenties) ==
            LET maxTens == Min(afterTwenties \div 10, inventory[2])
                tensSeq == DownFrom(maxTens)
            IN  Flatten([k \in 1..Len(tensSeq) |->
                            fivesLoop(twenties, tensSeq[k], afterTwenties - tensSeq[k] * 10)])
        maxTwenties == Min(amount \div 20, inventory[1])
        twentiesSeq == DownFrom(maxTwenties)
    IN  Flatten([k \in 1..Len(twentiesSeq) |->
                    tensLoop(twentiesSeq[k], amount - twentiesSeq[k] * 20)])

\* Variant: only the $1 and $5 counts compared.
compareCombos_onesFivesOnly(a, b) ==
    IF a[4] # b[4] THEN a[4] - b[4] ELSE a[3] - b[3]

\* Variant: the counts compared from the $20 bills down.
compareCombos_twentiesFirst(a, b) ==
    IF a[1] # b[1] THEN a[1] - b[1]
    ELSE IF a[2] # b[2] THEN a[2] - b[2]
    ELSE IF a[3] # b[3] THEN a[3] - b[3]
    ELSE a[4] - b[4]

\* The comparator handed to combos.sort: negative when a goes before b.
compareCombos(a, b) ==
    IF a[4] # b[4] THEN a[4] - b[4]
    ELSE IF a[3] # b[3] THEN a[3] - b[3]
    ELSE IF a[2] # b[2] THEN a[2] - b[2]
    ELSE a[1] - b[1]

\* Array.prototype.sort is stable: an element goes after every element that
\* does not compare greater than it.
RECURSIVE insertCombo(_, _)
insertCombo(sorted, combo) ==
    IF sorted = <<>> THEN <<combo>>
    ELSE IF compareCombos(Head(sorted), combo) > 0 THEN <<combo>> \o sorted
    ELSE <<Head(sorted)>> \o insertCombo(Tail(sorted), combo)

RECURSIVE sortCombos(_)
sortCombos(combos) ==
    IF combos = <<>> THEN <<>>
    ELSE insertCombo(sortCombos(SubSeq(combos, 1, Len(combos) - 1)), combos[Len(combos)])

generateCombos(amount, inventory) == sortCombos(enumerateCombos(amount, inventory))

----------------------------------------------------------------------------
(* calculateBillBreakdown                                                  *)

\* utils.roundToNearestDollar: the nearest whole dollar of an amount given in
\* cents, a half rounded up.
roundToNearestDollar(cents) == (cents + 50) \div 100

\* Variant: > in place of >=.
denominationFits_strict(remaining, denom) == remaining > denom

\* if (remaining >= denom)
denominationFits(remaining, denom) == remaining >= denom

\* The loop over DENOMINATION_DETAILS from position i on, with the amount
\* still to break down; the entries it pushes.
RECURSIVE breakdownLoop(_, _)
breakdownLoop(i, remaining) ==
    IF i > Len(DENOMINATION_DETAILS) THEN <<>>
    ELSE LET denom == DENOMINATION_DETAILS[i].value
         IN  IF denominationFits(remaining, denom)
             THEN LET quantity == remaining \div denom
                  IN  <<[denomination |-> denom, quantity |-> quantity]>>
                      \o breakdownLoop(i + 1, remaining - denom * quantity)
             ELSE breakdownLoop(i + 1, remaining)

calculateBillBreakdown(cents) == breakdownLoop(1, roundToNearestDollar(cents))

----------------------------------------------------------------------------
(* allocateBillBreakdowns and searchAllocation                             *)
(* Array positions are 1-based here: partner.index i is the source's i-1.  *)

\* The comparator handed to partners.sort: descending rounded amount.
comparePartners(a, b) == b.rounded - a.rounded

RECURSIVE insertPartner(_, _)
insertPartner(sorted, partner) ==
    IF sorted = <<>> THEN <<partner>>
    ELSE IF comparePartners(Head(sorted), partner) > 0 THEN <<partner>> \o sorted
    ELSE <<Head(sorted)>> \o insertPartner(Tail(sorted), partner)

RECURSIVE sortPartners(_)
sortPartners(list) ==
    IF list = <<>> THEN <<>>
    ELSE insertPartner(sortPartners(SubSeq(list, 1, Len(list) - 1)), list[Len(list)])

\* roundedAmounts.map(...): one entry per recipient, in the caller's order.
mapPartners(amounts, availableCounts) ==
    [i \in 1..Len(amounts) |->
        [index |-> i, rounded |-> amounts[i],
         combos |-> generateCombos(amounts[i], availableCounts)]]

\* Variant: .every in place of .some.
someWithoutCombos_every(list) == \A i \in 1..Len(list) : Len(list[i].combos) = 0

\* partners.some((partner) => partner.combos.length === 0)
someWithoutCombos(list) == \E i \in 1..Len(list) : Len(list[i].combos) = 0

\* The value returned when a partner has no combination (return null).
EarlyFailureResult == Null

\* Variant: a failure value of its own for a search that found nothing.
SearchFailureResult_distinct == [kind |-> "infeasible"]

\* The value returned when the search returns null (return null).
SearchFailureResult == Null

\* The innermost searchAllocation call.
top == stack[Len(stack)]
pop == SubSeq(stack, 1, Len(stack) - 1)
current == partners[top.position]

\* Variant: the slot of the position in search order.
slot_byPosition(position) == position

\* allocation[partner.index]: the slot of the partner at a search position.
slot(position) == partners[position].index

\* A running call that is not waiting for a recursive call to return.
Running == pc = "search" /\ stack # <<>> /\ ~top.waiting
InLoop == Running /\ top.position <= Len(partners)

\* allocateBillBreakdowns up to the first searchAllocation call: the partners
\* with their combinations, the early failure, the sort, the empty allocation.
AllocateStart ==
    /\ pc = "start"
    /\ LET availableCounts == inventoryToCounts(billInventory)
           mapped == mapPartners(roundedAmounts, availableCounts)
       IN  IF someWithoutCombos(mapped)
           THEN /\ partners' = mapped
                /\ result' = EarlyFailureResult
                /\ pc' = "done"
                /\ UNCHANGED <<allocation, stack, searchCalls>>
           ELSE /\ partners' = sortPartners(mapped)
                /\ allocation' = [i \in 1..Len(roundedAmounts) |-> emptyCounts]
                /\ stack' = << [position |-> 1, next |-> 1,
                                remaining |-> availableCounts, waiting |-> FALSE] >>
                /\ searchCalls' = 1
                /\ pc' = "search"
                /\ UNCHANGED result
    /\ UNCHANGED <<roundedAmounts, billInventory, ret, comboVars, breakdownVars, serviceVars>>

\* if (position >= partners.length) return remaining
SearchComplete ==
    /\ Running
    /\ top.position > Len(partners)
    /\ ret' = Counts(top.remaining)
    /\ stack' = pop
    /\ UNCHANGED <<roundedAmounts, billInventory, pc, partners, allocation, result,
                   searchCalls, comboVars, breakdownVars, serviceVars>>

\* Variant: the combos taken from the end of the list.
candidate_fromLast(k) == current.combos[Len(current.combos) + 1 - k]

\* for (const combo of partner.combos): the combo of the k-th iteration.
candidate(k) == current.combos[k]

\* Variant: the combo is checked against the inventory the caller gave.
remainingOf_original(frame) == inventoryToCounts(billInventory)

\* remaining: the inventory a searchAllocation call was given.
remainingOf(frame) == frame.remaining

\* Variant: the slot keeps the combo that failed.
clearedSlot_kept == allocation[slot(top.position)]

\* emptyCounts(), the value a slot is reset to after a failed recursive call.
clearedSlot == emptyCounts

\* if (!countsFitInventory(combo, remaining)) continue
SearchSkip ==
    /\ InLoop
    /\ top.next <= Len(current.combos)
    /\ ~countsFitInventory(candidate(top.next), remainingOf(top))
    /\ stack' = [stack EXCEPT ![Len(stack)].next = @ + 1]
    /\ UNCHANGED <<roundedAmounts, billInventory, pc, partners, allocation, ret, result,
                   searchCalls, comboVars, breakdownVars, serviceVars>>

\* allocation[partner.index] = [...combo]; the recursive call
SearchAssign ==
    /\ InLoop
    /\ top.next <= Len(current.combos)
    /\ LET combo == candidate(top.next)
       IN  /\ countsFitInventory(combo, remainingOf(top))
           /\ allocation' = [allocation EXCEPT ![slot(top.position)] = combo]
           /\ stack' = Append([stack EXCEPT ![Len(stack)].waiting = TRUE],
                              [position |-> top.position + 1, next |-> 1,
                               remaining |-> subtractCounts(top.remaining, combo),
                               waiting |-> FALSE])
    /\ searchCalls' = searchCalls + 1
    /\ UNCHANGED <<roundedAmounts, billInventory, pc, partners, ret, result,
                   comboVars, breakdownVars, serviceVars>>

\* if (result) return result
SearchPropagate ==
    /\ pc = "search" /\ stack # <<>> /\ top.waiting
    /\ ret.kind = "counts"
    /\ stack' = pop
    /\ UNCHANGED <<roundedAmounts, billInventory, pc, partners, allocation, ret, result,
                   searchCalls, comboVars, breakdownVars, serviceVars>>

\* the recursive call returned null: allocation[partner.index] = emptyCounts(),
\* next combo
SearchBacktrack ==
    /\ pc = "search" /\ stack # <<>> /\ top.waiting
    /\ ret.kind = "null"
    /\ allocation' = [allocation EXCEPT ![slot(top.position)] = clearedSlot]
    /\ stack' = [stack EXCEPT ![Len(stack)].next = @ + 1, ![Len(stack)].waiting = FALSE]
    /\ ret' = None
    /\ UNCHANGED <<roundedAmounts, billInventory, pc, partners, result,
                   searchCalls, comboVars, breakdownVars, serviceVars>>

\* the for loop ran out of combos: return null
SearchExhausted ==
    /\ InLoop
    /\ top.next > Len(current.combos)
    /\ ret' = Null
    /\ stack' = pop
    /\ UNCHANGED <<roundedAmounts, billInventory, pc, partners, allocation, result,
                   searchCalls, comboVars, breakdownVars, serviceVars>>

\* allocateBillBreakdowns after the search returned
AllocateFinish ==
    /\ pc = "search" /\ stack = <<>> /\ ret.kind # "none"
    /\ IF ret.kind = "null"
       THEN result' = SearchFailureResult
       ELSE result' = Solution([i \in 1..Len(allocation) |->
                                   countsToBreakdown(allocation[i])],
                               countsToInventory(ret.counts))
    /\ pc' = "done"
    /\ UNCHANGED <<roundedAmounts, billInventory, partners, allocation, stack, ret,
                   searchCalls, comboVars, breakdownVars, serviceVars>>

\* The inventories the calls are given.
Caps == {<<t, n, f, o>> : t \in 0..MaxTwenties, n \in 0..MaxTens,
                          f \in 0..MaxFives, o \in 0..MaxOnes}
Inventories == {countsToInventory(c) : c \in Caps}

AmountLists == UNION {[1..n -> AmountChoices] : n \in 0..MaxPartners}

CombosOff == gAmount = 0 /\ gCap = emptyCounts /\ gCombos = <<>> /\ gPc = "off"
BreakdownOff == bAmount = 0 /\ bBreakdown = <<>> /\ bPc = "off"
AllocOff ==
    /\ roundedAmounts = <<>> /\ billInventory = countsToInventory(emptyCounts)
    /\ pc = "off" /\ partners = <<>> /\ allocation = <<>> /\ stack = <<>>
    /\ ret = None /\ result = None /\ searchCalls = 0

LimiterOff ==
    /\ now = 0 /\ requests = <<>> /\ admitted = <<>> /\ answers = <<>>
    /\ ticks = 0 /\ lPc = "off"
AnalyzeOff ==
    /\ provider = "gemini" /\ configured = FALSE /\ attempt = 0 /\ delays = <<>>
    /\ outbound = <<>> /\ replies = <<>> /\ aResult = None /\ aPc = "off"
    /\ latency = 0
AutoOff ==
    /\ preferredEngine = "unset" /\ envEngine = "unset" /\ oStack = <<>>
    /\ oRet = None /\ azureResult = None /\ tesseractResult = None
    /\ oResult = None /\ oPc = "off"
EditOff ==
    /\ partnerPayout = [rounded |-> 0, billBreakdown |-> <<>>] /\ isEditing = FALSE
    /\ billInputs = <<>> /\ inputError = "null" /\ isOpen = FALSE
    /\ billCounts = emptyCounts /\ errorMessage = "null" /\ lastHandler = None
WorkerOff ==
    /\ workerInstance = 0 /\ createWorkerCalls = 0 /\ callers = <<>>
    /\ terminations = 0 /\ tPc = "off"
ClientOff == EditOff /\ WorkerOff
ServicesOff == LimiterOff /\ AnalyzeOff /\ AutoOff /\ ClientOff

\* Every list of targets with every inventory of the grid.
GridInputs == {[amounts |-> a, inventory |-> i] : a \in AmountLists, i \in Inventories}

\* Calls outside the grid: an amount of 11 against ten $1 bills, and an
\* inventory that leaves the $20 and $10 fields out.
ScenarioInputs ==
    { [amounts |-> <<11>>,
       inventory |-> [twenties |-> 0, tens |-> 0, fives |-> 0, ones |-> 10]],
      [amounts |-> <<3, 5>>, inventory |-> [fives |-> 1, ones |-> 3]] }

Init ==
    /\ \E input \in GridInputs \cup ScenarioInputs :
           /\ roundedAmounts = input.amounts
           /\ billInventory = input.inventory
    /\ pc = "start"
    /\ partners = <<>>
    /\ allocation = <<>>
    /\ stack = <<>>
    /\ ret = None
    /\ result = None
    /\ searchCalls = 0
    /\ CombosOff
    /\ BreakdownOff
    /\ ServicesOff

Next ==
    \/ AllocateStart
    \/ SearchComplete
    \/ SearchSkip
    \/ SearchAssign
    \/ SearchPropagate
    \/ SearchBacktrack
    \/ SearchExhausted
    \/ AllocateFinish

Spec == Init /\ [][Next]_vars

----------------------------------------------------------------------------
(* One call of generateCombos                                              *)

InitCombos ==
    /\ gAmount \in (0 - MinComboAmount)..MaxComboAmount
    /\ gCap \in Caps
    /\ gCombos = <<>>
    /\ gPc = "call"
    /\ AllocOff
    /\ BreakdownOff
    /\ ServicesOff

CallGenerateCombos ==
    /\ gPc = "call"
    /\ gCombos' = generateCombos(gAmount, gCap)
    /\ gPc' = "done"
    /\ UNCHANGED <<gAmount, gCap, allocVars, breakdownVars, serviceVars>>

NextCombos == CallGenerateCombos

SpecCombos == InitCombos /\ [][NextCombos]_vars

----------------------------------------------------------------------------
(* One call of calculateBillBreakdown                                      *)

\* Fractions of a dollar the amounts carry, in cents.
CentChoices == {0, 49, 50}

InitBreakdown ==
    /\ bAmount \in {100 * d + c : d \in 0..MaxBreakdownDollars, c \in CentChoices}
    /\ bBreakdown = <<>>
    /\ bPc = "call"
    /\ AllocOff
    /\ CombosOff
    /\ ServicesOff

CallCalculateBillBreakdown ==
    /\ bPc = "call"
    /\ bBreakdown' = calculateBillBreakdown(bAmount)
    /\ bPc' = "done"
    /\ UNCHANGED <<bAmount, allocVars, comboVars, serviceVars>>

NextBreakdown == CallCalculateBillBreakdown

SpecBreakdown == InitBreakdown /\ [][NextBreakdown]_vars

----------------------------------------------------------------------------
(* Reference definitions the properties are stated with                    *)

CountsValue(counts) == 20 * counts[1] + 10 * counts[2] + 5 * counts[3] + counts[4]

RECURSIVE BreakdownValue(_)
BreakdownValue(breakdown) ==
    IF breakdown = <<>> THEN 0
    ELSE Head(breakdown).denomination * Head(breakdown).quantity
         + BreakdownValue(Tail(breakdown))

\* Bills of one denomination a breakdown lists.
RECURSIVE QuantityOf(_, _)
QuantityOf(breakdown, denom) ==
    IF breakdown = <<>> THEN 0
    ELSE (IF Head(breakdown).denomination = denom THEN Head(breakdown).quantity ELSE 0)
         + QuantityOf(Tail(breakdown), denom)

\* Bills of one denomination all the breakdowns of a list use together.
RECURSIVE TotalQuantity(_, _)
TotalQuantity(breakdowns, denom) ==
    IF breakdowns = <<>> THEN 0
    ELSE QuantityOf(Head(breakdowns), denom) + TotalQuantity(Tail(breakdowns), denom)

\* Every vector of counts within the cap whose value is the amount.
ValidCombos(amount, cap) ==
    {c \in (0..cap[1]) \X (0..cap[2]) \X (0..cap[3]) \X (0..cap[4]) :
        CountsValue(c) = amount}

\* One vector per amount can be chosen so that together they fit the inventory.
RECURSIVE JointlyFeasible(_, _)
JointlyFeasible(amounts, counts) ==
    \/ amounts = <<>>
    \/ \E c \in ValidCombos(Head(amounts), counts) :
           JointlyFeasible(Tail(amounts), [k \in 1..4 |-> counts[k] - c[k]])

available == inventoryToCounts(billInventory)

Returned == pc = "done"
ReturnedSolution == pc = "done" /\ result.kind = "solution"
ReturnedFailure == pc = "done" /\ result.kind # "solution"

SomeUnrepresentable ==
    \E i \in 1..Len(roundedAmounts) : ValidCombos(roundedAmounts[i], available) = {}

\* Lexicographic order on the key (ones, fives, tens, twenties).
KeyLeq(a, b) ==
    \/ a[4] < b[4]
    \/ a[4] = b[4] /\ a[3] < b[3]
    \/ a[4] = b[4] /\ a[3] = b[3] /\ a[2] < b[2]
    \/ a[4] = b[4] /\ a[3] = b[3] /\ a[2] = b[2] /\ a[1] <= b[1]

----------------------------------------------------------------------------
(* Properties                                                              *)

\* C1: whenever allocateBillBreakdowns returns a solution, every recipient's
\* breakdown sums exactly to that recipient's target, and for every
\* denomination the bills used by all breakdowns together are no more than
\* the inventory holds.
C1_SolutionExactAndWithinInventory ==
    ReturnedSolution =>
        /\ Len(result.breakdowns) = Len(roundedAmounts)
        /\ \A i \in 1..Len(roundedAmounts) :
               BreakdownValue(result.breakdowns[i]) = roundedAmounts[i]
        /\ \A k \in 1..4 :
               TotalQuantity(result.breakdowns, DENOMINATIONS[k]) <= available[k]

\* A solution for two recipients who compete for the same bills: the second
\* one had to pass over its first choice.
C1_Witness ==
    /\ ReturnedSolution
    /\ Len(roundedAmounts) = 2
    /\ \A i \in 1..2 : roundedAmounts[i] > 0
    /\ \E p \in 1..2 :
           allocation[partners[p].index] # partners[p].combos[1]

\* C2: the search is complete. For non-negative targets a failure is returned
\* only if no choice of one combination per recipient fits the inventory.
C2_FailureOnlyIfInfeasible ==
    (/\ ReturnedFailure
     /\ \A i \in 1..Len(roundedAmounts) : roundedAmounts[i] >= 0)
        => ~JointlyFeasible(roundedAmounts, available)

\* A failure after a search: every recipient alone is representable, the
\* search was entered, went down at least one level, and found nothing.
C2_Witness ==
    /\ ReturnedFailure
    /\ ~SomeUnrepresentable
    /\ Len(roundedAmounts) = 2
    /\ searchCalls > 1

\* C3: whenever a solution is returned, the remaining inventory is, for every
\* denomination, the input count minus the bills of that denomination in all
\* returned breakdowns, and no component is negative.
C3_RemainingIsInventoryMinusAllocated ==
    ReturnedSolution =>
        LET rem == inventoryToCounts(result.remaining)
        IN  \A k \in 1..4 :
                /\ rem[k] = available[k] - TotalQuantity(result.breakdowns, DENOMINATIONS[k])
                /\ rem[k] >= 0

\* A solution that uses some bills and leaves some.
C3_Witness ==
    /\ ReturnedSolution
    /\ Len(roundedAmounts) = 2
    /\ \E k \in 1..4 : TotalQuantity(result.breakdowns, DENOMINATIONS[k]) > 0
    /\ \E k \in 1..4 : inventoryToCounts(result.remaining)[k] > 0
    /\ inventoryToCounts(result.remaining) # available

C5_UnrepresentableFailsWithoutSearch ==
    (pc # "start" /\ SomeUnrepresentable) =>
        /\ pc = "done"
        /\ result = Null
        /\ searchCalls = 0
        /\ stack = <<>>

\* One recipient is unrepresentable, the other is not.
C5_Witness ==
    /\ pc = "done"
    /\ Len(roundedAmounts) = 2
    /\ \E i, j \in 1..2 :
           /\ ValidCombos(roundedAmounts[i], available) = {}
           /\ roundedAmounts[i] > 0
           /\ ValidCombos(roundedAmounts[j], available) # {}
           /\ roundedAmounts[j] > 0

\* Inventory {20:0, 10:0, 5:0, 1:10} and targets [11]: null, without a search.
C5_WitnessElevenFromTenOnes ==
    /\ pc = "done"
    /\ roundedAmounts = <<11>>
    /\ available = <<0, 0, 0, 10>>
    /\ result = Null
    /\ searchCalls = 0

\* C6: every combination generateCombos(amount, cap) returns has non-negative
\* counts, at most cap[d] bills of each denomination, and the value amount.
C6_CombosWithinCapAndExact ==
    gPc = "done" =>
        \A k \in 1..Len(gCombos) :
            /\ Len(gCombos[k]) = 4
            /\ \A d \in 1..4 : gCombos[k][d] >= 0 /\ gCombos[k][d] <= gCap[d]
            /\ CountsValue(gCombos[k]) = gAmount

\* Several combinations, with the $1 bills too few to pay the amount without
\* larger bills.
C6_Witness ==
    /\ gPc = "done"
    /\ Len(gCombos) >= 3
    /\ gAmount > 20
    /\ gCap[4] < (gAmount % 5) + 5
    /\ (gAmount % 5) # 0

\* C7: generateCombos(amount, cap) holds, exactly once, every vector of counts
\* within the cap whose value is the amount; it is empty exactly when there is
\* no such vector.
C7_CombosExhaustive ==
    gPc = "done" =>
        /\ \A c \in ValidCombos(gAmount, gCap) :
               Cardinality({k \in 1..Len(gCombos) : gCombos[k] = c}) = 1
        /\ (gCombos = <<>>) <=> (ValidCombos(gAmount, gCap) = {})

\* An amount with several representations under the cap, one of them without
\* a $20 bill although one is available and fits.
C7_Witness ==
    /\ gPc = "done"
    /\ Cardinality(ValidCombos(gAmount, gCap)) >= 4
    /\ gAmount >= 20
    /\ gCap[1] >= 1
    /\ \E c \in ValidCombos(gAmount, gCap) : c[1] = 0

\* An amount that cannot be built under the cap although the cap is worth
\* more than the amount.
C7_WitnessEmpty ==
    /\ gPc = "done"
    /\ gAmount > 0
    /\ CountsValue(gCap) > gAmount
    /\ gCombos = <<>>

\* C8: the list generateCombos returns is in ascending lexicographic order of
\* the key (ones, fives, tens, twenties).
C8_CombosSorted ==
    gPc = "done" =>
        \A k \in 1..(Len(gCombos) - 1) : KeyLeq(gCombos[k], gCombos[k + 1])

\* The sort changed the order the loops produced.
C8_Witness ==
    /\ gPc = "done"
    /\ Len(gCombos) >= 3
    /\ gCombos # enumerateCombos(gAmount, gCap)

\* C9: the breakdowns are returned in the caller's order, breakdowns[i] being
\* the breakdown of roundedAmounts[i], although the search takes the
\* recipients in descending order of amount.
C9_BreakdownsInCallerOrder ==
    ReturnedSolution =>
        /\ Len(result.breakdowns) = Len(roundedAmounts)
        /\ \A p \in 1..Len(partners) :
               /\ partners[p].rounded = roundedAmounts[partners[p].index]
               /\ result.breakdowns[partners[p].index]
                      = countsToBreakdown(allocation[partners[p].index])
               /\ BreakdownValue(result.breakdowns[partners[p].index])
                      = partners[p].rounded
        /\ \A p \in 1..(Len(partners) - 1) :
               partners[p].rounded >= partners[p + 1].rounded

\* The caller's order is ascending, so the search order differs from it.
C9_Witness ==
    /\ ReturnedSolution
    /\ Len(roundedAmounts) = 2
    /\ 0 < roundedAmounts[1]
    /\ roundedAmounts[1] < roundedAmounts[2]
    /\ partners[1].index = 2

\* C10: for every whole amount >= 0, the quantities calculateBillBreakdown
\* returns, each times its denomination, add up to the amount.
C10_BreakdownSumsToAmount ==
    (bPc = "done" /\ (bAmount % 100) = 0) =>
        BreakdownValue(bBreakdown) = bAmount \div 100

\* breakdown(37): all four denominations are used.
C10_Witness ==
    /\ bPc = "done"
    /\ bAmount = 3700
    /\ Len(bBreakdown) = 4

\* Bills a breakdown lists in all.
RECURSIVE BillCount(_)
BillCount(breakdown) ==
    IF breakdown = <<>> THEN 0
    ELSE Head(breakdown).quantity + BillCount(Tail(breakdown))

\* C11: for every whole amount in 0..200, calculateBillBreakdown(amount) is a
\* representation of the amount and no vector of non-negative counts with the
\* value amount has fewer bills in all.
C11_BreakdownFewestBills ==
    (bPc = "done" /\ (bAmount % 100) = 0 /\ bAmount \div 100 \in 0..200) =>
        LET amount == bAmount \div 100
        IN  /\ BreakdownValue(bBreakdown) = amount
            /\ \A t \in 0..(amount \div 20), n \in 0..(amount \div 10),
                  f \in 0..(amount \div 5) :
                   LET o == amount - 20 * t - 10 * n - 5 * f
                   IN  o >= 0 => BillCount(bBreakdown) <= t + n + f + o

\* breakdown(200): ten $20 bills, where twenty $10 bills or 200 $1 bills
\* would also pay the amount.
C11_Witness ==
    /\ bPc = "done"
    /\ bAmount = 20000
    /\ BillCount(bBreakdown) = 10

\* The call of scenario A has returned: inventory {20:0, 10:2, 5:2, 1:5},
\* targets [25, 15].
ScenarioAReturned ==
    /\ pc = "done"
    /\ roundedAmounts = <<25, 15>>
    /\ available = <<0, 2, 2, 5>>

\* C12 as stated: in scenario A a valid allocation is returned, both
\* breakdowns exact and the remaining inventory non-negative.
C12_ScenarioAFeasible ==
    ScenarioAReturned =>
        /\ result.kind = "solution"
        /\ BreakdownValue(result.breakdowns[1]) = 25
        /\ BreakdownValue(result.breakdowns[2]) = 15
        /\ \A k \in 1..4 : inventoryToCounts(result.remaining)[k] >= 0

\* C12 amended: in scenario A null is returned. Each target is representable
\* alone, the search is run, and no joint choice exists: the inventory is worth
\* 35 and the targets 40.
C12_ScenarioAInfeasible ==
    ScenarioAReturned =>
        /\ result = Null
        /\ ~SomeUnrepresentable
        /\ searchCalls > 1
        /\ CountsValue(available) = 35
        /\ ~JointlyFeasible(roundedAmounts, available)

C12_Witness == ScenarioAReturned /\ result = Null

\* The call of scenario B has returned: inventory {20:1, 10:0, 5:0, 1:3},
\* targets [20, 3].
ScenarioBReturned ==
    /\ pc = "done"
    /\ roundedAmounts = <<20, 3>>
    /\ available = <<1, 0, 0, 3>>

\* C13: in scenario B the target 20 gets one $20 bill, the target 3 three $1
\* bills, and nothing remains in any denomination.
C13_ScenarioB ==
    ScenarioBReturned =>
        /\ result.kind = "solution"
        /\ result.breakdowns = << <<[denomination |-> 20, quantity |-> 1]>>,
                                  <<[denomination |-> 1, quantity |-> 3]>> >>
        /\ result.remaining = [twenties |-> 0, tens |-> 0, fives |-> 0, ones |-> 0]

C13_Witness == ScenarioBReturned /\ result.kind = "solution"

SomeNegative == \E i \in 1..Len(roundedAmounts) : roundedAmounts[i] < 0

\* C14 as stated: a negative target is reported with an outcome of its own,
\* distinct from the infeasibility outcomes, without any search.
C14_NegativeReportedAsInvalid ==
    (Returned /\ SomeNegative) =>
        /\ result.kind \notin {EarlyFailureResult.kind, SearchFailureResult.kind}
        /\ searchCalls = 0

\* C14 amended: a negative target has no combination (generateCombos is
\* called on it and returns the empty list), so the call ends at the early
\* check with null, the outcome of every other failure, and searchAllocation
\* is never invoked.
C14_NegativeFailsEarlyWithNull ==
    (pc # "start" /\ SomeNegative) =>
        /\ \A p \in 1..Len(partners) :
               partners[p].rounded < 0 => partners[p].combos = <<>>
        /\ \E p \in 1..Len(partners) : partners[p].rounded < 0
        /\ pc = "done"
        /\ result = EarlyFailureResult
        /\ searchCalls = 0

\* A negative target beside a representable positive one.
C14_Witness ==
    /\ pc = "done"
    /\ Len(roundedAmounts) = 2
    /\ \E i, j \in 1..2 :
           /\ roundedAmounts[i] < 0
           /\ roundedAmounts[j] > 0
           /\ ValidCombos(roundedAmounts[j], available) # {}

\* The tuples of candidate choices: for every search position p, a place in
\* the candidate list of the recipient at p.
ChoiceTuples ==
    {f \in [1..Len(partners) ->
                UNION {1..Len(partners[p].combos) : p \in 1..Len(partners)}] :
        \A p \in 1..Len(partners) : f[p] <= Len(partners[p].combos)}

\* The candidates of a tuple together fit the inventory.
RECURSIVE UsedBy(_, _, _)
UsedBy(f, p, k) ==
    IF p = 0 THEN 0 ELSE partners[p].combos[f[p]][k] + UsedBy(f, p - 1, k)

JointlyAdmissible(f) == \A k \in 1..4 : UsedBy(f, Len(partners), k) <= available[k]

\* f comes before g in lexicographic order, the first search position first.
LexBefore(f, g) ==
    \E p \in 1..Len(partners) : f[p] < g[p] /\ \A q \in 1..(p - 1) : f[q] = g[q]

\* The places of the returned combinations in the candidate lists.
chosen ==
    [p \in 1..Len(partners) |->
        CHOOSE i \in 1..Len(partners[p].combos) :
            partners[p].combos[i] = allocation[partners[p].index]]

\* C20: the recipients are searched in descending order of target, equal
\* targets in the caller's order; the returned assignment is the
\* lexicographically least jointly admissible tuple of candidate choices; and
\* once a solution is found no call looks at another candidate.
C20_FirstSolutionInDepthFirstOrder ==
    /\ searchCalls > 0 =>
           \A p, q \in 1..Len(partners) :
               p < q => \/ partners[p].rounded > partners[q].rounded
                        \/ /\ partners[p].rounded = partners[q].rounded
                           /\ partners[p].index < partners[q].index
    /\ ReturnedSolution =>
           /\ \A p \in 1..Len(partners) :
                  \E i \in 1..Len(partners[p].combos) :
                      partners[p].combos[i] = allocation[partners[p].index]
           /\ JointlyAdmissible(chosen)
           /\ \A f \in ChoiceTuples : JointlyAdmissible(f) => ~LexBefore(f, chosen)
    /\ (pc = "search" /\ ret.kind = "counts") =>
           \A d \in 1..Len(stack) : stack[d].waiting

\* A solution in which a recipient did not get its first candidate, and
\* another jointly admissible tuple exists after the returned one.
C20_Witness ==
    /\ ReturnedSolution
    /\ Len(roundedAmounts) = 2
    /\ \E p \in 1..2 : chosen[p] > 1
    /\ \E f \in ChoiceTuples : JointlyAdmissible(f) /\ LexBefore(chosen, f)

----------------------------------------------------------------------------
(* GEMINI_RATE_LIMIT_CONFIG and the RateLimiter (server/api/gemini.ts)     *)

maxRequests == 15          \* requests per window
windowMs == 60000          \* length of the window, ms
maxRetries == 3
baseDelay == 1000          \* ms
maxDelay == 30000          \* ms
backoffMultiplier == 2

MaxLimiterCalls == 17      \* canMakeRequest calls in one behaviour
MaxTicks == 2              \* clock advances in one behaviour

\* Time that passes between two calls: a millisecond, or a millisecond short
\* of a window.
TickChoices == {1, windowMs - 1}

Max(a, b) == IF a >= b THEN a ELSE b

\* Math.min(...this.requests)
oldestRequest(reqs) == CHOOSE t \in {reqs[i] : i \in 1..Len(reqs)} :
                           \A i \in 1..Len(reqs) : t <= reqs[i]

\* this.requests.filter(time => now - time < this.windowMs)
withinWindow(reqs, t) == SelectSeq(reqs, LAMBDA time : t - time < windowMs)

\* this.requests.length >= this.maxRequests
atLimit_above(length) == length > maxRequests
atLimit(length) == length >= maxRequests

\* canMakeRequest() at time t: the value returned and the array it leaves.
canMakeRequest(reqs, t) ==
    LET kept == withinWindow(reqs, t)
    IN  IF atLimit(Len(kept))
        THEN [ok |-> FALSE, requests |-> kept]
        ELSE [ok |-> TRUE, requests |-> Append(kept, t)]

\* Variant: a millisecond short of the window.
getTimeUntilNextRequest_short(reqs, t) ==
    IF Len(reqs) < maxRequests THEN 0
    ELSE Max(0, windowMs - 1 - (t - oldestRequest(reqs)))

\* getTimeUntilNextRequest() at time t
getTimeUntilNextRequest(reqs, t) ==
    IF Len(reqs) < maxRequests THEN 0
    ELSE Max(0, windowMs - (t - oldestRequest(reqs)))

\* What a canMakeRequest() call at time t answered and, for a denial, the
\* wait getTimeUntilNextRequest() reports right after it.
Answer(t, r) ==
    [at |-> t, ok |-> r.ok,
     wait |-> IF r.ok THEN 0 ELSE getTimeUntilNextRequest(r.requests, t)]

InitRateLimiter ==
    /\ now = 0 /\ requests = <<>> /\ admitted = <<>> /\ answers = <<>>
    /\ ticks = 0 /\ lPc = "run"
    /\ AllocOff /\ CombosOff /\ BreakdownOff /\ AnalyzeOff /\ AutoOff /\ ClientOff

\* Time passes between two calls.
Tick ==
    /\ lPc = "run"
    /\ ticks < MaxTicks
    /\ \E d \in TickChoices : now' = now + d
    /\ ticks' = ticks + 1
    /\ UNCHANGED <<requests, admitted, answers, lPc, allocVars, clientVars, comboVars,
                   breakdownVars, analyzeVars, autoVars>>

CallCanMakeRequest ==
    /\ lPc = "run"
    /\ Len(answers) < MaxLimiterCalls
    /\ LET r == canMakeRequest(requests, now)
       IN  /\ requests' = r.requests
           /\ answers' = Append(answers, Answer(now, r))
           /\ admitted' = IF r.ok THEN Append(admitted, now) ELSE admitted
    /\ UNCHANGED <<now, ticks, lPc, allocVars, clientVars, comboVars, breakdownVars,
                   analyzeVars, autoVars>>

NextRateLimiter == Tick \/ CallCanMakeRequest

SpecRateLimiter == InitRateLimiter /\ [][NextRateLimiter]_vars

\* Number of admissions in the half-open interval [from, from + windowMs).
AdmittedIn(from) ==
    Cardinality({i \in 1..Len(admitted) :
                     from <= admitted[i] /\ admitted[i] < from + windowMs})

\* The time of the latest canMakeRequest call.
lastCallAt == answers[Len(answers)].at

\* C15: the RateLimiter admits at most maxRequests calls per window. Every
\* half-open interval of length windowMs holds at most maxRequests admissions
\* (it is enough to start the interval at an admission), the array holds
\* exactly the admissions still inside the window of the latest call, and a
\* denied call adds no entry of its own: it leaves the array full.
C15_AtMostMaxRequestsPerWindow ==
    lPc = "run" =>
        /\ \A i \in 1..Len(admitted) : AdmittedIn(admitted[i]) <= maxRequests
        /\ answers # <<>> => requests = withinWindow(admitted, lastCallAt)
        /\ (answers # <<>> /\ ~answers[Len(answers)].ok) =>
               Len(requests) = maxRequests

\* A sixteenth call inside the window was denied and, once the window of the
\* first admissions had passed, a later call was admitted again.
C15_Witness ==
    /\ lPc = "run"
    /\ \E i \in 1..Len(answers) : ~answers[i].ok
    /\ Len(admitted) > maxRequests
    /\ answers[Len(answers)].ok

----------------------------------------------------------------------------
(* analyzeImage (server/api/gemini.ts): the rate check, then the retry     *)
(* loop, one iteration a step. What the provider answers is the            *)
(* environment's choice.                                                   *)

Providers == {"gemini", "azure-openai", "azure-vision"}

maxAttempts == 30          \* polls of one Azure Vision operation
pollInterval == 1000       \* ms slept before each poll

\* Round-trip times of a request.
Latencies == {0, 250}

\* Earlier analyzeImage calls the limiter still holds when the call starts:
\* none, one short of the limit, the limit.
EarlierCalls == {0, maxRequests - 1, maxRequests}

\* HTTP statuses of a failed request.
ErrorStatuses == {429, 500}

\* Bodies of a failed Gemini request: whether the text parses as JSON, whether
\* error.message is there and names a quota or rate limit, and error.code
\* (0: absent).
ErrorBodies ==
    { [json |-> FALSE, message |-> "absent", code |-> 0],
      [json |-> TRUE, message |-> "absent", code |-> 429],
      [json |-> TRUE, message |-> "plain", code |-> 0],
      [json |-> TRUE, message |-> "quota", code |-> 0],
      [json |-> TRUE, message |-> "plain", code |-> 429] }

Throws == [kind |-> "throws"]
HttpError(status, body) == [kind |-> "http", status |-> status, body |-> body]
Ok(content) == [kind |-> "ok", content |-> content]

\* Answers to one Gemini or Azure OpenAI attempt. A body that is no JSON makes
\* response.json() throw.
GeminiReplies ==
    {Throws} \cup {HttpError(s, b) : s \in ErrorStatuses, b \in ErrorBodies}
             \cup {Ok(c) : c \in {"text", "noCandidates", "noText", "malformed"}}
AzureOpenAIReplies ==
    {Throws} \cup {HttpError(s, [json |-> FALSE, message |-> "absent", code |-> 0]) :
                       s \in ErrorStatuses}
             \cup {Ok(c) : c \in {"text", "noText", "malformed"}}

\* Answers to one Azure Vision attempt: the submission fails, or the operation
\* is polled, answered "running" a number of times and then with a final
\* answer.
PollRunChoices == {0, maxAttempts - 1, maxAttempts}
PollFinals == {"succeeded", "empty", "failed", "httpError", "throws"}
AzureVisionReplies ==
    {Throws, Ok("noLocation")}
        \cup {HttpError(s, [json |-> FALSE, message |-> "absent", code |-> 0]) :
                  s \in ErrorStatuses}
        \cup {[kind |-> "polled", running |-> r, final |-> f] :
                  r \in PollRunChoices \ {maxAttempts}, f \in PollFinals}
        \cup {[kind |-> "polled", running |-> maxAttempts, final |-> "running"]}

Error(error) == [kind |-> "error", error |-> error]
Success == [kind |-> "success"]

\* isRateLimitError(error): error.code || error.status is 429, or the message
\* names a quota or rate limit.
isRateLimitError(code, message) == code = 429 \/ message = "quota"

\* shouldRetry of the Gemini branch
shouldRetry(status, body) ==
    IF body.json
    THEN IF body.message # "absent"
         THEN isRateLimitError(body.code, body.message)
         ELSE FALSE
    ELSE isRateLimitError(status, "absent")

\* attempt < maxRetries
retriesLeft_inclusive(att) == att <= maxRetries
retriesLeft(att) == att < maxRetries

\* attempt === maxRetries
lastAttempt(att) == att = maxRetries

\* Math.min(baseDelay * Math.pow(backoffMultiplier, attempt), maxDelay)
backoff(att) == Min(baseDelay * (backoffMultiplier ^ att), maxDelay)

\* What one pass through the try block does: the times of the requests it
\* sends, the time at which it ends, and how it ends: it returns a result, it
\* asks for a retry (continue), or it throws.
Return(res, sent, at) == [exit |-> "return", result |-> res, sent |-> sent, at |-> at]
Retry(sent, at) == [exit |-> "retry", result |-> None, sent |-> sent, at |-> at]
Thrown(sent, at) == [exit |-> "throw", result |-> None, sent |-> sent, at |-> at]

geminiAttempt(att, t, reply) ==
    IF ~configured THEN Return(Error("keyMissing"), <<>>, t)
    ELSE LET sent == <<t>>
             at == t + latency
         IN  CASE reply.kind = "throws" -> Thrown(sent, at)
               [] reply.kind = "http" ->
                      IF shouldRetry(reply.status, reply.body) /\ retriesLeft(att)
                      THEN Retry(sent, at)
                      ELSE IF isRateLimitError(reply.status, reply.body.message)
                           THEN Return(Error("quotaExceeded"), sent, at)
                           ELSE Return(Error("apiError"), sent, at)
               [] reply.kind = "ok" ->
                      CASE reply.content = "malformed" -> Thrown(sent, at)
                        [] reply.content = "noCandidates" ->
                               Return(Error("noText"), sent, at)
                        [] reply.content = "noText" -> Return(Error("noText"), sent, at)
                        [] OTHER -> Return(Success, sent, at)

azureOpenAIAttempt(t, reply) ==
    IF ~configured THEN Return(Error("configMissing"), <<>>, t)
    ELSE LET sent == <<t>>
             at == t + latency
         IN  CASE reply.kind = "throws" -> Thrown(sent, at)
               [] reply.kind = "http" -> Return(Error("apiError"), sent, at)
               [] reply.kind = "ok" ->
                      CASE reply.content = "malformed" -> Thrown(sent, at)
                        [] reply.content = "noText" -> Return(Error("noText"), sent, at)
                        [] OTHER -> Return(Success, sent, at)

\* The submission at time t, then the polls: poll j is sent a pollInterval
\* after the answer to the request before it.
pollTimes(t, polls) ==
    <<t>> \o [j \in 1..polls |-> t + j * (latency + pollInterval)]

azureVisionAttempt(t, reply) ==
    IF ~configured THEN Return(Error("configMissing"), <<>>, t)
    ELSE CASE reply.kind = "throws" -> Thrown(<<t>>, t + latency)
           [] reply.kind = "http" -> Return(Error("apiError"), <<t>>, t + latency)
           [] reply.kind = "ok" -> Return(Error("noLocation"), <<t>>, t + latency)
           [] reply.kind = "polled" ->
                  LET polls == Min(reply.running + 1, maxAttempts)
                      sent == pollTimes(t, polls)
                      at == sent[Len(sent)] + latency
                  IN  IF reply.running >= maxAttempts
                      THEN Return(Error("timedOut"), sent, at)
                      ELSE CASE reply.final = "throws" -> Thrown(sent, at)
                             [] reply.final = "httpError" ->
                                    Return(Error("resultError"), sent, at)
                             [] reply.final = "succeeded" -> Return(Success, sent, at)
                             [] reply.final = "empty" -> Return(Error("noText"), sent, at)
                             [] OTHER -> Return(Error("failed"), sent, at)

InitAnalyzeImage ==
    /\ provider \in Providers
    /\ configured \in BOOLEAN
    /\ latency \in Latencies
    /\ \E earlier \in EarlierCalls :
           \* each earlier call was admitted and sent one request, a second apart
           /\ requests = [i \in 1..earlier |-> i * 1000]
           /\ admitted = requests
           /\ outbound = requests
           /\ now = earlier * 1000
    /\ answers = <<>> /\ ticks = 0 /\ lPc = "off"
    /\ attempt = 0 /\ delays = <<>> /\ replies = <<>> /\ aResult = None
    /\ aPc = "start"
    /\ AllocOff /\ CombosOff /\ BreakdownOff /\ AutoOff /\ ClientOff

\* if (!rateLimiter.canMakeRequest()) return ...; provider; attempt = 0
AnalyzeStart ==
    /\ aPc = "start"
    /\ LET r == canMakeRequest(requests, now)
       IN  /\ requests' = r.requests
           /\ answers' = Append(answers, Answer(now, r))
           /\ admitted' = IF r.ok THEN Append(admitted, now) ELSE admitted
           /\ IF r.ok
              THEN aPc' = "attempt" /\ aResult' = aResult
              ELSE /\ aPc' = "done"
                   /\ aResult' = [kind |-> "error", error |-> "rateLimitExceeded",
                                  waitTime |-> getTimeUntilNextRequest(r.requests, now)]
    /\ attempt' = 0
    /\ UNCHANGED <<now, ticks, lPc, provider, configured, delays, outbound, replies,
                   latency, allocVars, clientVars, comboVars, breakdownVars, autoVars>>

\* One iteration of the loop with what its try block did: a return ends the
\* call; a continue sleeps the backoff; a throw goes to the catch block, which
\* returns on the last attempt and sleeps the backoff otherwise. After a sleep
\* comes attempt++ and the loop test, and the return after the loop when the
\* test fails.
Iterate(reply, outcome) ==
    /\ outbound' = outbound \o outcome.sent
    /\ replies' = Append(replies, reply)
    /\ IF outcome.exit = "return"
       THEN /\ aResult' = outcome.result
            /\ aPc' = "done"
            /\ now' = outcome.at
            /\ UNCHANGED <<attempt, delays>>
       ELSE IF outcome.exit = "throw" /\ lastAttempt(attempt)
       THEN /\ aResult' = Error("unexpected")
            /\ aPc' = "done"
            /\ now' = outcome.at
            /\ UNCHANGED <<attempt, delays>>
       ELSE /\ delays' = Append(delays, backoff(attempt))
            /\ now' = outcome.at + backoff(attempt)
            /\ attempt' = attempt + 1
            /\ IF attempt + 1 <= maxRetries
               THEN aPc' = "attempt" /\ aResult' = aResult
               ELSE aPc' = "done" /\ aResult' = Error("maxRetriesExceeded")
    /\ UNCHANGED <<requests, admitted, answers, ticks, lPc, provider, configured,
                   latency, allocVars, clientVars, comboVars, breakdownVars, autoVars>>

AttemptGemini ==
    /\ aPc = "attempt" /\ provider = "gemini"
    /\ \E reply \in GeminiReplies : Iterate(reply, geminiAttempt(attempt, now, reply))

AttemptAzureOpenAI ==
    /\ aPc = "attempt" /\ provider = "azure-openai"
    /\ \E reply \in AzureOpenAIReplies : Iterate(reply, azureOpenAIAttempt(now, reply))

AttemptAzureVision ==
    /\ aPc = "attempt" /\ provider = "azure-vision"
    /\ \E reply \in AzureVisionReplies : Iterate(reply, azureVisionAttempt(now, reply))

NextAnalyzeImage ==
    \/ AnalyzeStart
    \/ AttemptGemini
    \/ AttemptAzureOpenAI
    \/ AttemptAzureVision

SpecAnalyzeImage == InitAnalyzeImage /\ [][NextAnalyzeImage]_vars

\* Number of requests sent to the provider in [from, from + windowMs).
OutboundIn(from) ==
    Cardinality({i \in 1..Len(outbound) :
                     from <= outbound[i] /\ outbound[i] < from + windowMs})

\* The HTTP status that ended attempt number k (0 when it was no HTTP error).
statusOf(k) == IF replies[k].kind = "http" THEN replies[k].status ELSE 0

\* C16: every HTTP request analyzeImage sends to the OCR provider is tracked
\* and rate-checked: counting retries and polls, no window of windowMs holds
\* more than maxRequests outbound requests.
C16_OutboundRequestsWithinLimit ==
    aPc # "off" =>
        \A i \in 1..Len(outbound) : OutboundIn(outbound[i]) <= maxRequests

\* C17: a Gemini attempt answered with HTTP status 429 while fewer than
\* maxRetries retries have been used is followed by a wait and another
\* attempt: the call does not return on it.
C17_RateLimitedAttemptIsRetried ==
    (aPc # "off" /\ provider = "gemini") =>
        \A k \in 1..Len(replies) :
            (statusOf(k) = 429 /\ k - 1 < maxRetries) => Len(delays) >= k

\* C18: one call makes at most maxRetries + 1 = 4 attempts, the waits before
\* the retries are 1 s, 2 s and 4 s in this order, the fourth attempt returns,
\* and no call returns the 'maximum retry attempts exceeded' error.
C18_BoundedExponentialBackoff ==
    aPc # "off" =>
        /\ Len(replies) <= 4
        /\ attempt <= 3
        /\ Len(delays) <= 3
        /\ delays = SubSeq(<<1000, 2000, 4000>>, 1, Len(delays))
        /\ Len(replies) = 4 => aPc = "done"
        /\ aPc = "attempt" => Len(delays) = Len(replies) /\ attempt = Len(replies)
        /\ aPc = "done" => aResult # Error("maxRetriesExceeded")

\* A call whose first three attempts were retried after 1 s, 2 s and 4 s and
\* whose fourth attempt returned; once by rate-limit replies, once by throws.
C18_Witness ==
    /\ aPc = "done"
    /\ Len(replies) = 4
    /\ delays = <<1000, 2000, 4000>>
    /\ statusOf(4) = 429
    /\ aResult = Error("quotaExceeded")

C18_WitnessThrows ==
    /\ aPc = "done"
    /\ Len(replies) = 4
    /\ replies[4] = Throws
    /\ aResult = Error("unexpected")

----------------------------------------------------------------------------
(* analyzeImageWithService (server/lib/ocrService.ts) and the analyzeImage *)
(* of api/ocr that tryTesseract calls as analyzeWithTesseract, and which   *)
(* calls analyzeImageWithService in turn. An OCRServiceResult is a record  *)
(* of text (present or not), partners (the length of partnerData),         *)
(* confidence, engine and error (present or not).                          *)

MaxDepth == 3              \* analyzeImageWithService calls nested in one another

Engines == {"auto", "azure", "tesseract"}
EngineSettings == Engines \cup {"unset"}

\* Confidences the report parser gives, and lengths of the partner list.
ConfidenceChoices == {0, 10, 15, 50}
PartnerCounts == {0, 2}

\* What analyzeImageWithAzure and parseStarbucksReport yield for one call.
AzureOutcomes ==
    {[kind |-> "throws"], [kind |-> "noText"]}
        \cup {[kind |-> "parsed", partners |-> p, confidence |-> c] :
                  p \in PartnerCounts, c \in ConfidenceChoices}

\* preferredEngine || process.env.OCR_ENGINE || 'auto'
engineOf(preferred) ==
    IF preferred # "unset" THEN preferred
    ELSE IF envEngine # "unset" THEN envEngine ELSE "auto"

ServiceResult(text, partnerCount, confidence, engine, error) ==
    [text |-> text, partners |-> partnerCount, confidence |-> confidence,
     engine |-> engine, error |-> error]

\* tryAzure, given what Azure and the parser yield
tryAzure(outcome) ==
    CASE outcome.kind = "throws" -> ServiceResult(FALSE, 0, 0, "azure", TRUE)
      [] outcome.kind = "noText" -> ServiceResult(FALSE, 0, 0, "azure", TRUE)
      [] OTHER ->
             IF outcome.partners > 0
             THEN ServiceResult(TRUE, outcome.partners, outcome.confidence, "azure", FALSE)
             ELSE ServiceResult(TRUE, 0, outcome.confidence, "azure", TRUE)

\* analyzeImage of api/ocr, given what analyzeImageWithService returned: the
\* result itself when it has partner data, otherwise text, error and engine
\* without partnerData and confidence.
ocrAnalyzeImage(res) ==
    IF res.partners > 0 THEN res
    ELSE [text |-> res.text, error |-> TRUE, engine |-> res.engine]

\* tryTesseract, given what analyzeWithTesseract returned
tryTesseract(res) ==
    IF ~res.text \/ "partners" \notin DOMAIN res \/ res.partners = 0
    THEN ServiceResult(res.text, 0, 0, "tesseract", TRUE)
    ELSE ServiceResult(res.text, res.partners,
                       IF "confidence" \in DOMAIN res THEN res.confidence ELSE 0,
                       "tesseract", FALSE)

\* tryTesseract when analyzeWithTesseract throws
tryTesseractCatch == ServiceResult(FALSE, 0, 0, "tesseract", TRUE)

\* azureResult.partnerData.length > 0 && azureResult.confidence >= 15
azureGoodEnough(azure) == azure.partners > 0 /\ azure.confidence >= 15

\* tesseractResult.confidence > azureResult.confidence
tesseractBetter(azure, tesseract) == tesseract.confidence > azure.confidence

\* The end of tryAutoMode: whichever has better results.
autoChoice(azure, tesseract) ==
    IF tesseractBetter(azure, tesseract) THEN tesseract ELSE azure

innermost == oStack[Len(oStack)]

\* The innermost call stands before tryAzure, or before tryTesseract.
atTryAzure ==
    /\ oPc = "run" /\ oRet = None
    /\ innermost.engine \in {"auto", "azure"}
    /\ innermost.azure = None
atTryTesseract ==
    /\ oPc = "run" /\ oRet = None
    /\ \/ innermost.engine = "tesseract"
       \/ innermost.engine = "auto" /\ innermost.azure # None

\* The innermost call returns res: to the analyzeWithTesseract call of the
\* call around it, or to the caller of the outermost call.
ServiceReturns(res) ==
    IF Len(oStack) = 1
    THEN oStack' = <<>> /\ oRet' = None /\ oResult' = res /\ oPc' = "done"
    ELSE /\ oStack' = SubSeq(oStack, 1, Len(oStack) - 1)
         /\ oRet' = res
         /\ UNCHANGED <<oResult, oPc>>

InitOcrService ==
    /\ preferredEngine \in EngineSettings
    /\ envEngine \in EngineSettings
    /\ oStack = <<>> /\ oRet = None /\ azureResult = None /\ tesseractResult = None
    /\ oResult = None /\ oPc = "call"
    /\ AllocOff /\ CombosOff /\ BreakdownOff /\ LimiterOff /\ AnalyzeOff /\ ClientOff

\* analyzeImageWithService: the engine is chosen
CallService ==
    /\ oPc = "call"
    /\ oStack' = <<[engine |-> engineOf(preferredEngine), azure |-> None]>>
    /\ oPc' = "run"
    /\ UNCHANGED <<preferredEngine, envEngine, oRet, azureResult, tesseractResult,
                   oResult, allocVars, clientVars, comboVars, breakdownVars, limiterVars,
                   analyzeVars>>

\* tryAzure in the innermost call: in azure mode its result is returned, in
\* auto mode it is returned when it is good enough and kept otherwise.
TryAzure ==
    /\ atTryAzure
    /\ \E outcome \in AzureOutcomes :
           LET azure == tryAzure(outcome)
           IN  /\ azureResult' = IF Len(oStack) = 1 THEN azure ELSE azureResult
               /\ IF innermost.engine = "azure" \/ azureGoodEnough(azure)
                  THEN ServiceReturns(azure)
                  ELSE /\ oStack' = [oStack EXCEPT ![Len(oStack)].azure = azure]
                       /\ UNCHANGED <<oRet, oResult, oPc>>
    /\ UNCHANGED <<preferredEngine, envEngine, tesseractResult, allocVars, clientVars, comboVars,
                   breakdownVars, limiterVars, analyzeVars>>

\* tryTesseract calls analyzeWithTesseract(imageBuffer): analyzeImage of
\* api/ocr, called without an engine, calls analyzeImageWithService.
CallTesseract ==
    /\ atTryTesseract
    /\ Len(oStack) < MaxDepth
    /\ oStack' = Append(oStack, [engine |-> engineOf("unset"), azure |-> None])
    /\ UNCHANGED <<preferredEngine, envEngine, oRet, azureResult, tesseractResult,
                   oResult, oPc, allocVars, clientVars, comboVars, breakdownVars, limiterVars,
                   analyzeVars>>

\* What tryTesseract returns ends the innermost call in tesseract mode, and is
\* compared with azureResult in auto mode.
TesseractYields(tesseract) ==
    /\ tesseractResult' = IF Len(oStack) = 1 THEN tesseract ELSE tesseractResult
    /\ IF innermost.engine = "tesseract"
       THEN ServiceReturns(tesseract)
       ELSE ServiceReturns(autoChoice(innermost.azure, tesseract))
    /\ UNCHANGED <<preferredEngine, envEngine, azureResult, allocVars, clientVars, comboVars,
                   breakdownVars, limiterVars, analyzeVars>>

\* In tesseract mode under OCR_ENGINE = tesseract the calls nest without an
\* await until the call stack is exhausted: the call throws and the catch of
\* tryTesseract returns.
TesseractOverflow ==
    /\ atTryTesseract
    /\ Len(oStack) >= MaxDepth
    /\ innermost.engine = "tesseract" /\ engineOf("unset") = "tesseract"
    /\ TesseractYields(tryTesseractCatch)

\* The nested call has returned to analyzeImage of api/ocr, and that to
\* tryTesseract.
TesseractReturn ==
    /\ oPc = "run" /\ oRet # None
    /\ TesseractYields(tryTesseract(ocrAnalyzeImage(oRet)))

NextOcrService ==
    \/ CallService
    \/ TryAzure
    \/ CallTesseract
    \/ TesseractOverflow
    \/ TesseractReturn

SpecOcrService == InitOcrService /\ [][NextOcrService]_vars

\* C19: in auto mode, when the Azure attempt yields no partner data and the
\* Tesseract attempt yields partner data, analyzeImageWithService returns the
\* Tesseract result.
C19_FallsBackToTesseract ==
    (/\ oPc = "done"
     /\ engineOf(preferredEngine) = "auto"
     /\ azureResult # None /\ tesseractResult # None
     /\ azureResult.partners = 0
     /\ tesseractResult.partners > 0) => oResult = tesseractResult

----------------------------------------------------------------------------
(* The search state                                                        *)

\* A searchAllocation call is in progress or has just returned.
Searching == pc = "search"

\* Position d of the search path holds a combo: its call waits for the
\* recursive call it made.
OnPath(d) == d <= Len(stack) /\ stack[d].waiting

\* Sum of the allocation slots of the search positions 1..d.
RECURSIVE AssignedBefore(_)
AssignedBefore(d) ==
    IF d = 0 THEN emptyCounts
    ELSE [k \in 1..4 |-> AssignedBefore(d - 1)[k] + allocation[slot(d)][k]]

\* C21: a combo is subtracted from the working inventory only after it was
\* checked, for every denomination, against the inventory remaining at that
\* point: the working inventory of every call in progress, and the inventory
\* a finished search returns, has no negative component, and the combo held
\* by a call that waits fits the inventory that call was given.
C21_WorkingInventoryNeverNegative ==
    Searching =>
        /\ \A d \in 1..Len(stack) : \A k \in 1..4 : stack[d].remaining[k] >= 0
        /\ \A d \in 1..Len(stack) :
               stack[d].waiting =>
                   \A k \in 1..4 : allocation[slot(d)][k] <= stack[d].remaining[k]
        /\ ret.kind = "counts" => \A k \in 1..4 : ret.counts[k] >= 0

\* The second call of a search stands before a combo that the inventory given
\* by the caller holds, but the inventory left by the first recipient does not.
C21_Witness ==
    /\ Searching /\ Len(stack) = 2 /\ ~top.waiting
    /\ top.position <= Len(partners)
    /\ top.next <= Len(current.combos)
    /\ countsFitInventory(candidate(top.next), available)
    /\ ~countsFitInventory(candidate(top.next), top.remaining)

\* C22: backtracking restores the state. The inventory of every call in
\* progress is the original inventory minus the combos assigned at the search
\* positions before it; until a solution is found, the slot of every recipient
\* whose call does not wait for a recursive call is all-zero; and a call that
\* resumes after a failed recursive call has its slot cleared and its
\* inventory as it was given.
C22_BacktrackingRestoresState ==
    Searching =>
        /\ \A d \in 1..Len(stack) :
               /\ stack[d].position = d
               /\ stack[d].remaining = subtractCounts(available, AssignedBefore(d - 1))
        /\ ret.kind # "counts" =>
               \A d \in 1..Len(partners) :
                   ~OnPath(d) => allocation[slot(d)] = emptyCounts
        /\ \A d \in 1..(Len(stack) - 1) : stack[d].waiting

\* A call resumed after its recursive call failed: more calls were made than
\* are in progress, the call stands before its next combo, and its slot is
\* empty again.
C22_Witness ==
    /\ Searching /\ stack # <<>> /\ ~top.waiting /\ ret = None
    /\ searchCalls > Len(stack)
    /\ top.position <= Len(partners)
    /\ top.next > 1
    /\ allocation[slot(top.position)] = emptyCounts

----------------------------------------------------------------------------
Reverse(s) == [i \in 1..Len(s) |-> s[Len(s) + 1 - i]]

\* C23: the order of the list generateCombos returns is determined by the
\* input alone. The same (amount, cap) gives the same list again; any two
\* combos at different places compare unequal, the earlier one strictly
\* before the later one, so no tie is left to the stability of the sort; and
\* the pushes sorted from the opposite enumeration order give the same list.
C23_CombosOrderDeterministic ==
    gPc = "done" =>
        /\ gCombos = generateCombos(gAmount, gCap)
        /\ \A i, j \in 1..Len(gCombos) :
               i < j => /\ gCombos[i] # gCombos[j]
                        /\ compareCombos(gCombos[i], gCombos[j]) < 0
                        /\ compareCombos(gCombos[j], gCombos[i]) > 0
        /\ sortCombos(Reverse(enumerateCombos(gAmount, gCap))) = gCombos

\* A list in which two combos agree in their $1 and $5 counts, so that their
\* order is decided by the later keys, and which the sort had to reorder.
C23_Witness ==
    /\ gPc = "done"
    /\ \E i, j \in 1..Len(gCombos) :
           /\ i < j
           /\ gCombos[i][4] = gCombos[j][4]
           /\ gCombos[i][3] = gCombos[j][3]
    /\ gCombos # enumerateCombos(gAmount, gCap)
    /\ gCombos # Reverse(enumerateCombos(gAmount, gCap))

----------------------------------------------------------------------------
\* C24: for the amount 0 and any inventory of non-negative counts, the
\* all-zero inventory included, generateCombos returns exactly one combo, the
\* all-zero one: a recipient with target 0 is representable whatever the
\* inventory, never makes the call fail on its own, and gets an empty
\* breakdown.
C24_ZeroAmountHasOneEmptyCombo ==
    /\ pc \in {"search", "done"} =>
           \A p \in 1..Len(partners) :
               partners[p].rounded = 0 => partners[p].combos = <<emptyCounts>>
    /\ (Returned /\ \A i \in 1..Len(roundedAmounts) : roundedAmounts[i] = 0)
           => ReturnedSolution
    /\ ReturnedSolution =>
           \A i \in 1..Len(roundedAmounts) :
               roundedAmounts[i] = 0 => result.breakdowns[i] = <<>>

\* A solution for a recipient with target 0 next to one with a positive
\* target.
C24_Witness ==
    /\ ReturnedSolution
    /\ \E i, j \in 1..Len(roundedAmounts) :
           roundedAmounts[i] = 0 /\ roundedAmounts[j] > 0 /\ result.breakdowns[i] = <<>>

\* Two recipients with target 0 served from an inventory without any bill.
C24_WitnessEmptyInventory ==
    /\ ReturnedSolution
    /\ available = emptyCounts
    /\ roundedAmounts = <<0, 0>>
    /\ result.breakdowns = << <<>>, <<>> >>

----------------------------------------------------------------------------
\* C25: each breakdown allocateBillBreakdowns returns lists its pairs in
\* descending order of denomination (20, 10, 5, 1), so that no denomination
\* comes twice, names only these denominations, and has no pair with the
\* quantity 0.
C25_BreakdownPairsDescendingNoZero ==
    ReturnedSolution =>
        \A i \in 1..Len(result.breakdowns) :
            LET b == result.breakdowns[i]
            IN  /\ \A k \in 1..Len(b) :
                       /\ b[k].denomination \in {20, 10, 5, 1}
                       /\ b[k].quantity > 0
                /\ \A k, l \in 1..Len(b) :
                       k < l => b[k].denomination > b[l].denomination

\* A returned breakdown of two pairs with a denomination left out between
\* them, next to an empty one.
C25_Witness ==
    /\ ReturnedSolution
    /\ \E i \in 1..Len(result.breakdowns) :
           LET b == result.breakdowns[i]
           IN  /\ Len(b) = 2
               /\ b[1].denomination = 20
               /\ b[2].denomination = 5
    /\ \E i \in 1..Len(result.breakdowns) : result.breakdowns[i] = <<>>

----------------------------------------------------------------------------
\* The greedy reference for a whole amount: floor(remaining / denomination)
\* of what the larger denominations leave, the denominations with the
\* quotient 0 left out.
GreedyReference(amount) ==
    SelectSeq(<< [denomination |-> 20, quantity |-> amount \div 20],
                 [denomination |-> 10, quantity |-> (amount % 20) \div 10],
                 [denomination |-> 5,  quantity |-> ((amount % 20) % 10) \div 5],
                 [denomination |-> 1,  quantity |-> (((amount % 20) % 10) % 5) \div 1] >>,
              LAMBDA entry : entry.quantity > 0)

\* C26: for every whole amount >= 0 calculateBillBreakdown is the greedy
\* reference: over 20, 10, 5, 1 in this order the quantity of a denomination
\* is the floor of what is left divided by it, quotients of 0 are not listed,
\* and nothing is left after the $1 step; breakdown(37) = 1x20, 1x10, 1x5, 2x1.
C26_BreakdownIsGreedyReference ==
    (bPc = "done" /\ (bAmount % 100) = 0) =>
        LET amount == bAmount \div 100
        IN  /\ bBreakdown = GreedyReference(amount)
            /\ amount - BreakdownValue(bBreakdown) = 0
            /\ amount = 37 =>
                   bBreakdown = << [denomination |-> 20, quantity |-> 1],
                                   [denomination |-> 10, quantity |-> 1],
                                   [denomination |-> 5,  quantity |-> 1],
                                   [denomination |-> 1,  quantity |-> 2] >>

\* breakdown(104): five $20 bills and four $1 bills, the $10 and the $5
\* step listing nothing.
C26_Witness ==
    /\ bPc = "done"
    /\ bAmount = 10400
    /\ bBreakdown = << [denomination |-> 20, quantity |-> 5],
                       [denomination |-> 1,  quantity |-> 4] >>

----------------------------------------------------------------------------
\* calculateBillBreakdown of every target, in the caller's order.
Suggestions ==
    [i \in 1..Len(roundedAmounts) |-> calculateBillBreakdown(100 * roundedAmounts[i])]

\* The inventory holds, of every denomination, the bills the suggestions of
\* all recipients list together.
StockSuffices ==
    \A k \in 1..4 : available[k] >= TotalQuantity(Suggestions, DENOMINATIONS[k])

----------------------------------------------------------------------------
(* Manual bill editing: PartnerCard and BillBreakdownModal                 *)
(* A string is the sequence of its characters.  Both components show the   *)
(* same partner; the parent that owns the partner stores what the save     *)
(* callbacks pass to it.                                                   *)

Digits == <<"0", "1", "2", "3", "4", "5", "6", "7", "8", "9">>
isDigit(c) == \E i \in 1..Len(Digits) : Digits[i] = c
digitValue(c) == (CHOOSE i \in 1..Len(Digits) : Digits[i] = c) - 1

NaN == [kind |-> "NaN"]
Number(n) == [kind |-> "number", value |-> n]

\* /^\d+$/.test(value)
isDigitString(value) ==
    Len(value) > 0 /\ \A i \in 1..Len(value) : isDigit(value[i])

\* The length of the longest run of digits a string starts with.
leadingDigits(s) ==
    CHOOSE k \in 0..Len(s) :
        /\ \A i \in 1..k : isDigit(s[i])
        /\ k = Len(s) \/ ~isDigit(s[k + 1])

RECURSIVE digitsValue(_)
digitsValue(s) ==
    IF s = <<>> THEN 0
    ELSE 10 * digitsValue(SubSeq(s, 1, Len(s) - 1)) + digitValue(s[Len(s)])

\* parseInt(s, 10): an optional sign, then the digits up to the first
\* character that is none; NaN when there is no digit.  (The strings of the
\* model hold no white space.)
parseInt(s) ==
    LET signed == Len(s) > 0 /\ s[1] \in {"-", "+"}
        body   == IF signed THEN Tail(s) ELSE s
        k      == leadingDigits(body)
        value  == digitsValue(SubSeq(body, 1, k))
    IN  IF k = 0 THEN NaN
        ELSE Number(IF signed /\ s[1] = "-" THEN 0 - value ELSE value)

isNaN(n) == n.kind = "NaN"

RECURSIVE naturalToString(_)
naturalToString(n) ==
    IF n < 10 THEN <<Digits[n + 1]>>
    ELSE Append(naturalToString(n \div 10), Digits[(n % 10) + 1])

\* quantity.toString() of a whole number
toString(n) == IF n < 0 THEN <<"-">> \o naturalToString(0 - n) ELSE naturalToString(n)

BILL_DENOMINATIONS == <<20, 10, 5, 1>>
ModalDenominations == <<20, 10, 5, 1>>

\* breakdown.find((item) => item.denomination === denomination)
findBill(breakdown, denomination) ==
    SelectSeq(breakdown, LAMBDA item : item.denomination = denomination)

\* One input string per denomination: the quantity the breakdown lists, "0"
\* for a denomination it does not list.
initializeInputs(breakdown) ==
    [i \in 1..Len(BILL_DENOMINATIONS) |->
        LET bill == findBill(breakdown, BILL_DENOMINATIONS[i])
        IN  IF bill # <<>> THEN toString(bill[1].quantity) ELSE <<"0">>]

\* billInputs[denomination] ?? "0"
inputOrZero(inputs, i) == IF i \in DOMAIN inputs THEN inputs[i] ELSE <<"0">>

RECURSIVE totalFrom(_, _)
totalFrom(inputs, i) ==
    IF i > Len(BILL_DENOMINATIONS) THEN 0
    ELSE LET quantity == parseInt(inputOrZero(inputs, i))
         IN  (IF isNaN(quantity) THEN 0 ELSE BILL_DENOMINATIONS[i] * quantity.value)
             + totalFrom(inputs, i + 1)

\* useMemo over billInputs: the sum of denomination * parseInt(input), an
\* input that parses to NaN adding nothing.
totalFromInputs(inputs) == totalFrom(inputs, 1)

\* parseInt(input, 10) || 0
quantityOrZero(input) ==
    LET quantity == parseInt(input) IN IF isNaN(quantity) THEN 0 ELSE quantity.value

\* handleSave: .map to {denomination, quantity}, then .filter(quantity > 0)
newBreakdown(inputs) ==
    SelectSeq([i \in 1..Len(BILL_DENOMINATIONS) |->
                  [denomination |-> BILL_DENOMINATIONS[i],
                   quantity |-> quantityOrZero(inputOrZero(inputs, i))]],
              LAMBDA bill : bill.quantity > 0)

\* Variant: the total is not compared.
totalMismatch_never(total, rounded) == FALSE

\* totalFromInputs !== partner.rounded
totalMismatch(total, rounded) == total # rounded

\* The body of the effect on [isEditing, totalFromInputs, partner.rounded].
errorEffect(editing, total, rounded) ==
    IF ~editing THEN "null"
    ELSE IF total = rounded THEN "null"
    ELSE IF rounded - total >= 0 THEN "Please add" ELSE "Please remove"

\* The error after a handler that leaves the state (editing, inputs) and set
\* the error to `set`: the effect runs only when one of its dependencies
\* changed.
errorAfter(set, editing, inputs) ==
    IF editing = isEditing /\ totalFromInputs(inputs) = totalFromInputs(billInputs)
    THEN set
    ELSE errorEffect(editing, totalFromInputs(inputs), partnerPayout.rounded)

\* The counts of a breakdown, 0 for a denomination it does not list.
buildInitialCounts(breakdown) ==
    [i \in 1..Len(ModalDenominations) |->
        LET bill == findBill(breakdown, ModalDenominations[i])
        IN  IF bill # <<>> THEN bill[Len(bill)].quantity ELSE 0]

RECURSIVE totalOfCounts(_, _)
totalOfCounts(counts, i) ==
    IF i > Len(ModalDenominations) THEN 0
    ELSE ModalDenominations[i] * counts[i] + totalOfCounts(counts, i + 1)

\* useMemo over billCounts
totalFromBills(counts) == totalOfCounts(counts, 1)

\* Variant: every total is taken to match.
amountMatches_always(total, rounded) == TRUE

\* const amountMatches = totalFromBills === partner.rounded
amountMatches(total, rounded) == total = rounded

\* updateCount: isNaN(parsed) || parsed < 0 ? 0 : parsed
updatedCount(value) ==
    LET parsed == parseInt(value)
    IN  IF isNaN(parsed) THEN 0 ELSE IF parsed.value < 0 THEN 0 ELSE parsed.value

\* BillBreakdownModal.handleSave: .map to {denomination, quantity}, then
\* .filter(quantity > 0)
modalBreakdown(counts) ==
    SelectSeq([i \in 1..Len(ModalDenominations) |->
                  [denomination |-> ModalDenominations[i], quantity |-> counts[i]]],
              LAMBDA entry : entry.quantity > 0)

\* The parent's save callback: the partner with the breakdown it was handed.
storeBreakdown(p, breakdown) == [p EXCEPT !.billBreakdown = breakdown]

\* The parent's reset: the breakdown recomputed from the rounded payout.
resetTarget(p) == calculateBillBreakdown(100 * p.rounded)

\* The rounded payouts of the partner shown.
RoundedChoices == {0, 20, 26}

\* What is typed into which input: the position of the denomination and the
\* new content of its field.
EditChoices ==
    { <<1, <<>>>>, <<1, <<"1">>>>,
      <<2, <<>>>>, <<2, <<"0", "2">>>>, <<2, <<"-", "1">>>>,
      <<3, <<>>>>, <<3, <<"1">>>>, <<3, <<"1", ".", "5">>>>,
      <<4, <<>>>>, <<4, <<"1">>>>, <<4, <<"a">>>> }

SaveCall(name, total, called, argument) ==
    [kind |-> "save", name |-> name, total |-> total, called |-> called,
     argument |-> argument, storedBefore |-> partnerPayout.billBreakdown]
OtherHandler == [kind |-> "other"]

\* Both components mounted with the breakdown suggested for the payout; the
\* card's mount effect has filled billInputs.
InitBillEditing ==
    /\ \E amount \in RoundedChoices :
           partnerPayout = [rounded |-> amount,
                            billBreakdown |-> calculateBillBreakdown(100 * amount)]
    /\ isEditing = FALSE
    /\ billInputs = initializeInputs(partnerPayout.billBreakdown)
    /\ inputError = "null"
    /\ isOpen = FALSE
    /\ billCounts = buildInitialCounts(partnerPayout.billBreakdown)
    /\ errorMessage = "null"
    /\ lastHandler = None
    /\ AllocOff /\ CombosOff /\ BreakdownOff /\ LimiterOff /\ AnalyzeOff /\ AutoOff
    /\ WorkerOff

\* The modal's effect on [isOpen, partner.billBreakdown], after the parent
\* stored `breakdown` and left the dialog open or not.
ModalAfterStore(open, breakdown) ==
    /\ isOpen' = open
    /\ billCounts' = IF open THEN buildInitialCounts(breakdown) ELSE billCounts
    /\ errorMessage' = IF open THEN "null" ELSE errorMessage

\* The "Edit" button, rendered while not editing.
handleStartEditing ==
    /\ ~isEditing
    /\ billInputs' = initializeInputs(partnerPayout.billBreakdown)
    /\ isEditing' = TRUE
    /\ inputError' = errorAfter(inputError, TRUE, billInputs')
    /\ lastHandler' = OtherHandler
    /\ UNCHANGED <<partnerPayout, isOpen, billCounts, errorMessage>>
    /\ UNCHANGED <<allocVars, comboVars, breakdownVars, limiterVars, analyzeVars,
                   autoVars, workerVars>>

\* onChange of an input of the card, rendered while editing.
handleInputChange ==
    /\ isEditing
    /\ \E choice \in EditChoices :
           LET i     == choice[1]
               value == choice[2]
           IN  billInputs' =
                   IF value = <<>> \/ isDigitString(value)
                   THEN [billInputs EXCEPT ![i] = IF value = <<>> THEN <<"0">> ELSE value]
                   ELSE billInputs
    /\ inputError' = errorAfter(inputError, isEditing, billInputs')
    /\ lastHandler' = OtherHandler
    /\ UNCHANGED <<partnerPayout, isEditing, isOpen, billCounts, errorMessage>>
    /\ UNCHANGED <<allocVars, comboVars, breakdownVars, limiterVars, analyzeVars,
                   autoVars, workerVars>>

\* The "Cancel" button of the card, rendered while editing.
handleCancelEditing ==
    /\ isEditing
    /\ billInputs' = initializeInputs(partnerPayout.billBreakdown)
    /\ isEditing' = FALSE
    /\ inputError' = errorAfter("null", FALSE, billInputs')
    /\ lastHandler' = OtherHandler
    /\ UNCHANGED <<partnerPayout, isOpen, billCounts, errorMessage>>
    /\ UNCHANGED <<allocVars, comboVars, breakdownVars, limiterVars, analyzeVars,
                   autoVars, workerVars>>

\* PartnerCard.handleSave, with the parent storing what it is handed and the
\* effects on partner.billBreakdown of both components.  The button repeats
\* the handler's test in its disabled attribute; the handler is taken as it
\* stands.
handleSave ==
    /\ isEditing
    /\ LET total    == totalFromInputs(billInputs)
           proposed == newBreakdown(billInputs)
       IN  IF totalMismatch(total, partnerPayout.rounded)
           THEN /\ inputError' = "Bill total must equal"
                /\ lastHandler' = SaveCall("PartnerCard", total, FALSE, <<>>)
                /\ UNCHANGED <<partnerPayout, isEditing, billInputs, isOpen,
                               billCounts, errorMessage>>
           ELSE /\ partnerPayout' = storeBreakdown(partnerPayout, proposed)
                /\ billInputs' = initializeInputs(proposed)
                /\ isEditing' = FALSE
                /\ inputError' = errorAfter("null", FALSE, billInputs')
                /\ ModalAfterStore(isOpen, proposed)
                /\ lastHandler' = SaveCall("PartnerCard", total, TRUE, proposed)
    /\ UNCHANGED <<allocVars, comboVars, breakdownVars, limiterVars, analyzeVars,
                   autoVars, workerVars>>

\* PartnerCard.handleReset: the parent recomputes the breakdown, stores it or
\* not, and hands it back or returns nothing.
handleReset ==
    /\ isEditing
    /\ \E stores \in BOOLEAN, returns \in BOOLEAN :
           LET recalculated == IF returns THEN resetTarget(partnerPayout) ELSE <<>>
               stored       == IF stores THEN resetTarget(partnerPayout)
                               ELSE partnerPayout.billBreakdown
           IN  /\ partnerPayout' = storeBreakdown(partnerPayout, stored)
               /\ billInputs' =
                      IF stores THEN initializeInputs(stored)
                      ELSE IF returns /\ Len(recalculated) > 0
                           THEN initializeInputs(recalculated)
                           ELSE initializeInputs(partnerPayout.billBreakdown)
               /\ IF stores THEN ModalAfterStore(isOpen, stored)
                  ELSE UNCHANGED <<isOpen, billCounts, errorMessage>>
    /\ isEditing' = FALSE
    /\ inputError' = errorAfter("null", FALSE, billInputs')
    /\ lastHandler' = OtherHandler
    /\ UNCHANGED <<allocVars, comboVars, breakdownVars, limiterVars, analyzeVars,
                   autoVars, workerVars>>

\* The parent opens the dialog: the effect on [isOpen, partner.billBreakdown]
\* loads the stored counts and clears the message.
OpenModal ==
    /\ ~isOpen
    /\ isOpen' = TRUE
    /\ billCounts' = buildInitialCounts(partnerPayout.billBreakdown)
    /\ errorMessage' = "null"
    /\ lastHandler' = OtherHandler
    /\ UNCHANGED <<partnerPayout, isEditing, billInputs, inputError>>
    /\ UNCHANGED <<allocVars, comboVars, breakdownVars, limiterVars, analyzeVars,
                   autoVars, workerVars>>

\* "Cancel" or the dialog's own close: onClose.
onClose ==
    /\ isOpen
    /\ isOpen' = FALSE
    /\ lastHandler' = OtherHandler
    /\ UNCHANGED <<partnerPayout, isEditing, billInputs, inputError, billCounts,
                   errorMessage>>
    /\ UNCHANGED <<allocVars, comboVars, breakdownVars, limiterVars, analyzeVars,
                   autoVars, workerVars>>

\* onChange of an input of the dialog.
updateCount ==
    /\ isOpen
    /\ \E choice \in EditChoices :
           billCounts' = [billCounts EXCEPT ![choice[1]] = updatedCount(choice[2])]
    /\ lastHandler' = OtherHandler
    /\ UNCHANGED <<partnerPayout, isEditing, billInputs, inputError, isOpen,
                   errorMessage>>
    /\ UNCHANGED <<allocVars, comboVars, breakdownVars, limiterVars, analyzeVars,
                   autoVars, workerVars>>

\* BillBreakdownModal.handleSave, with the parent storing what it is handed,
\* closing the dialog or not, and the effects on partner.billBreakdown of
\* both components.
modalHandleSave ==
    /\ isOpen
    /\ LET total    == totalFromBills(billCounts)
           proposed == modalBreakdown(billCounts)
       IN  IF ~amountMatches(total, partnerPayout.rounded)
           THEN /\ errorMessage' = "Bill total must equal"
                /\ lastHandler' = SaveCall("BillBreakdownModal", total, FALSE, <<>>)
                /\ UNCHANGED <<partnerPayout, isEditing, billInputs, inputError,
                               isOpen, billCounts>>
           ELSE /\ partnerPayout' = storeBreakdown(partnerPayout, proposed)
                /\ \E open \in BOOLEAN : ModalAfterStore(open, proposed)
                /\ billInputs' = initializeInputs(proposed)
                /\ inputError' = errorAfter(inputError, isEditing, billInputs')
                /\ lastHandler' = SaveCall("BillBreakdownModal", total, TRUE, proposed)
                /\ UNCHANGED isEditing
    /\ UNCHANGED <<allocVars, comboVars, breakdownVars, limiterVars, analyzeVars,
                   autoVars, workerVars>>

NextBillEditing ==
    \/ handleStartEditing
    \/ handleInputChange
    \/ handleCancelEditing
    \/ handleSave
    \/ handleReset
    \/ OpenModal
    \/ onClose
    \/ updateCount
    \/ modalHandleSave

SpecBillEditing == InitBillEditing /\ [][NextBillEditing]_vars

\* The last handler was a save handler that found the totals differing.
SaveRefused ==
    /\ lastHandler.kind = "save"
    /\ lastHandler.total # partnerPayout.rounded

\* C28: over any sequence of edit operations in PartnerCard and
\* BillBreakdownModal the save callback is invoked only with a breakdown
\* whose sum of denomination x quantity equals partner.rounded and whose
\* quantities are all positive; a save attempt with a mismatching total does
\* not invoke it, leaves the stored breakdown as it was and sets the
\* component's error.
C28_SaveCommitsOnlyMatchingBreakdowns ==
    /\ (lastHandler.kind = "save" /\ lastHandler.called) =>
           /\ BreakdownValue(lastHandler.argument) = partnerPayout.rounded
           /\ \A i \in 1..Len(lastHandler.argument) :
                  lastHandler.argument[i].quantity > 0
           /\ partnerPayout.billBreakdown = lastHandler.argument
    /\ SaveRefused =>
           /\ ~lastHandler.called
           /\ partnerPayout.billBreakdown = lastHandler.storedBefore
           /\ lastHandler.name = "PartnerCard" => inputError # "null"
           /\ lastHandler.name = "BillBreakdownModal" => errorMessage # "null"

\* The card saved 2x10 + 1x5 + 1x1 for a payout of 26 whose stored breakdown
\* was 1x20 + 1x5 + 1x1, the $10 count typed as "02".
C28_Witness ==
    /\ lastHandler.kind = "save" /\ lastHandler.called
    /\ lastHandler.name = "PartnerCard"
    /\ partnerPayout.rounded = 26
    /\ lastHandler.argument = << [denomination |-> 10, quantity |-> 2],
                                 [denomination |-> 5,  quantity |-> 1],
                                 [denomination |-> 1,  quantity |-> 1] >>
    /\ lastHandler.storedBefore # lastHandler.argument

\* The dialog refused a save whose counts add up to 21 for a payout of 20.
C28_WitnessRefused ==
    /\ SaveRefused
    /\ lastHandler.name = "BillBreakdownModal"
    /\ partnerPayout.rounded = 20
    /\ lastHandler.total = 21
    /\ errorMessage = "Bill total must equal"

----------------------------------------------------------------------------
(* The Tesseract worker: getOCRWorker and terminateOCRWorker               *)
(* A worker is named by the number of the createWorker call that made it;  *)
(* 0 stands for null.  A call of an async function runs up to its first    *)
(* await in one step and resumes when the awaited promise settles.         *)

NumCallers == 3
MaxTerminations == 1

Callers == 1..NumCallers

Idle == [pc |-> "idle", worker |-> 0, value |-> 0]

InitWorker ==
    /\ workerInstance = 0
    /\ createWorkerCalls = 0
    /\ callers = [c \in Callers |-> Idle]
    /\ terminations = 0
    /\ tPc = "idle"
    /\ AllocOff /\ CombosOff /\ BreakdownOff /\ LimiterOff /\ AnalyzeOff /\ AutoOff
    /\ EditOff

\* getOCRWorker up to its first await: the instance held is returned, or
\* createWorker is called and awaited.
CallGetOCRWorker ==
    /\ \E c \in Callers :
        /\ callers[c].pc = "idle"
        /\ IF workerInstance # 0
           THEN /\ callers' = [callers EXCEPT ![c] =
                                   [pc |-> "returned", worker |-> 0,
                                    value |-> workerInstance]]
                /\ UNCHANGED createWorkerCalls
           ELSE /\ createWorkerCalls' = createWorkerCalls + 1
                /\ callers' = [callers EXCEPT ![c] =
                                   [pc |-> "creating", worker |-> createWorkerCalls',
                                    value |-> 0]]
    /\ UNCHANGED <<workerInstance, terminations, tPc>>
    /\ UNCHANGED <<allocVars, comboVars, breakdownVars, limiterVars, analyzeVars,
                   autoVars, editVars>>

\* await createWorker(...) settles: setParameters is called and awaited, or
\* the catch block throws 'OCR initialization failed'.
CreateWorkerSettles ==
    /\ \E c \in Callers, resolved \in BOOLEAN :
        /\ callers[c].pc = "creating"
        /\ callers' = [callers EXCEPT ![c].pc =
                           IF resolved THEN "configuring" ELSE "thrown"]
    /\ UNCHANGED <<workerInstance, createWorkerCalls, terminations, tPc>>
    /\ UNCHANGED <<allocVars, comboVars, breakdownVars, limiterVars, analyzeVars,
                   autoVars, editVars>>

\* await worker.setParameters(...) settles: workerInstance = worker and the
\* worker is returned, or the catch block throws.
SetParametersSettles ==
    /\ \E c \in Callers, resolved \in BOOLEAN :
        /\ callers[c].pc = "configuring"
        /\ IF resolved
           THEN /\ workerInstance' = callers[c].worker
                /\ callers' = [callers EXCEPT ![c].pc = "returned",
                                              ![c].value = callers[c].worker]
           ELSE /\ callers' = [callers EXCEPT ![c].pc = "thrown"]
                /\ UNCHANGED workerInstance
    /\ UNCHANGED <<createWorkerCalls, terminations, tPc>>
    /\ UNCHANGED <<allocVars, comboVars, breakdownVars, limiterVars, analyzeVars,
                   autoVars, editVars>>

\* terminateOCRWorker up to its await: with an instance held, terminate() is
\* called and awaited; without one the call returns.
TerminateStart ==
    /\ tPc = "idle"
    /\ terminations < MaxTerminations
    /\ terminations' = terminations + 1
    /\ tPc' = IF workerInstance # 0 THEN "terminating" ELSE "idle"
    /\ UNCHANGED <<workerInstance, createWorkerCalls, callers>>
    /\ UNCHANGED <<allocVars, comboVars, breakdownVars, limiterVars, analyzeVars,
                   autoVars, editVars>>

\* await workerInstance.terminate() settles: workerInstance = null
TerminateFinish ==
    /\ tPc = "terminating"
    /\ workerInstance' = 0
    /\ tPc' = "idle"
    /\ UNCHANGED <<createWorkerCalls, callers, terminations>>
    /\ UNCHANGED <<allocVars, comboVars, breakdownVars, limiterVars, analyzeVars,
                   autoVars, editVars>>

NextWorker ==
    \/ CallGetOCRWorker
    \/ CreateWorkerSettles
    \/ SetParametersSettles
    \/ TerminateStart
    \/ TerminateFinish

SpecWorker == InitWorker /\ [][NextWorker]_vars

\* C29: with no terminateOCRWorker call so far, createWorker has been
\* invoked at most once and all getOCRWorker calls that returned received
\* the same worker.
C29_WorkerIsSingleton ==
    (tPc # "off" /\ terminations = 0) =>
        /\ createWorkerCalls <= 1
        /\ \A c, d \in Callers :
               (callers[c].pc = "returned" /\ callers[d].pc = "returned")
                   => callers[c].value = callers[d].value

----------------------------------------------------------------------------
\* No call was admitted after the i-th call and before the j-th.
NoneAdmittedBetween(i, j) == \A k \in (i + 1)..(j - 1) : ~answers[k].ok

\* C30: the wait reported on a denial is sound. A canMakeRequest() call
\* denied at time t is followed by a wait w with 0 < w <= windowMs, and with
\* no admission in between every call at a time >= t + w is admitted: the
\* calls made so far, and the call that would be made now.
C30_ReportedWaitIsSound ==
    lPc = "run" =>
        \A i \in 1..Len(answers) :
            ~answers[i].ok =>
                /\ 0 < answers[i].wait /\ answers[i].wait <= windowMs
                /\ \A j \in (i + 1)..Len(answers) :
                       (/\ answers[j].at >= answers[i].at + answers[i].wait
                        /\ NoneAdmittedBetween(i, j))
                           => answers[j].ok
                /\ (/\ now >= answers[i].at + answers[i].wait
                    /\ NoneAdmittedBetween(i, Len(answers) + 1))
                       => canMakeRequest(requests, now).ok

\* A call denied a millisecond before the window of the first admissions
\* ends reported a wait of 1 ms, and the next call, made exactly that
\* millisecond later, was admitted.
C30_Witness ==
    /\ lPc = "run"
    /\ \E i \in 1..(Len(answers) - 1) :
           /\ ~answers[i].ok
           /\ answers[i].at = windowMs - 1
           /\ answers[i].wait = 1
           /\ answers[i + 1].at = answers[i].at + answers[i].wait
           /\ answers[i + 1].ok

====
